---- MODULE Spec2Model ----
(***************************************************************************)
(* MSAS: multimodal sentiment analysis pipeline, recorder and UI           *)
(* orchestration (src/core, src/utils/hardware.py, src/ui).                *)
(*                                                                         *)
(* Texts are sequences of tokens; the empty text "" is <<>>.  Source       *)
(* literals that are not ASCII are written as an ASCII gloss, with the     *)
(* source literal named in the comment of the definition.                  *)
(* Floating point weights are scaled to integers: scores by 10, the        *)
(* weighted sum by 100 (0.6*t + 0.4*v  ->  6*T10 + 4*V10).                 *)
(***************************************************************************)
EXTENDS Integers, Sequences, FiniteSets, TLC

VARIABLES
    \* ---- one AnalysisWorker run (workers.py AnalysisWorker, analysis_pipeline.py)
    wpc,              \* position of the run
    user_text,        \* AnalysisPipeline.run: user_text
    sentiment_result, \* AnalysisPipeline.run: sentiment_result (dict) or NoResult
    ai_response,      \* AnalysisPipeline.run: ai_response
    steps,            \* the calls the run has made so far, in order
    responder_args,   \* the (user_text, sentiment) handed to generate_response
    sidecars,         \* sidecar artifacts written under RESULTS_DIR
    finished_sig,     \* arguments of every AnalysisWorker.finished emission
    model_calls,      \* number of self.model.generate calls of the responder
    run_result,       \* the 4-tuple AnalysisPipeline.run returned, or NoResult
    audio,            \* the audio asset and what Whisper answers on it
    clf,              \* what the text classifier answers (a probability, or it raises)
    gen,              \* what the language model answers (a reply, or it raises)
    prompt,           \* the messages _build_prompt built, or NoResult
    parsed,           \* what re-reading B_sentiment.txt gave, or NoResult
    \* ---- analyze_video_emotion applied to one asset
    video,            \* the video asset
    video_out,        \* what analyze_video_emotion returned and did, or NoResult
    \* ---- the application: workers, CameraTab, FileTab, VADRecorderUI
    loader,           \* ModelLoaderWorker: "running", "emitted", "failed", "done"
    hw,               \* HardwareSetupWorker: "idle", "running", "emitted_ready",
                      \*   "emitted_error", "ready", "error" ("silent": the run
                      \*   ended without a signal)
    cam_models_loaded,  \* CameraTab.models_loaded
    cam_models,         \* CameraTab.transcriber, analyzer, responder
    file_models_loaded, \* FileTab.models_loaded
    file_models,        \* FileTab.transcriber, analyzer, responder
    recorder,         \* CameraTab.recorder is set
    rec_is_recording, \* VADRecorderUI.is_recording
    audio_frames,     \* VADRecorderUI.audio_frames
    video_frames,     \* VADRecorderUI.video_frames
    cam_is_recording, \* CameraTab.is_recording
    cam_is_processing,\* CameraTab.is_processing
    start_enabled,    \* CameraTab.start_button is enabled
    current_basename, \* CameraTab.current_basename
    timer_on,         \* CameraTab.timer is running
    frame_out,        \* what the last get_current_frame returned
    flush,            \* the last manual_save_recording call: buffers, result, writes
    cam_worker,       \* CameraTab.worker (AnalysisWorker): [state, basename]
    file_video_path,  \* FileTab.video_path
    upload_enabled,   \* FileTab.upload_btn is enabled
    analyze_enabled,  \* FileTab.analyze_btn is enabled
    pre,              \* FileTab.preprocessor (VideoPreprocessor): [state, basename]
    file_worker,      \* FileTab.analysis_worker (AnalysisWorker): [state, basename]
    disk,             \* media files under results/: [name, content]
    clock,            \* datetime.now(), in seconds
    sessions,         \* recordings started so far
    analyses,         \* file analyses started so far
    ticks,            \* frames read while recording since the last start
    crashed,          \* an exception left a slot and ended the process
    hw_emitted,       \* the signals the HardwareSetupWorker run emitted, in order
    pre_emitted       \* the signals the VideoPreprocessor run emitted, in order

pipeVars == <<wpc, user_text, sentiment_result, ai_response, steps,
              responder_args, sidecars, finished_sig, model_calls, run_result,
              audio, clf, gen, prompt, parsed>>
videoVars == <<video, video_out>>
uiVars == <<loader, hw, cam_models_loaded, cam_models, file_models_loaded, file_models, recorder,
            rec_is_recording, audio_frames, video_frames, cam_is_recording,
            cam_is_processing, start_enabled, current_basename, timer_on, frame_out,
            flush, cam_worker, file_video_path, upload_enabled, analyze_enabled, pre,
            file_worker, disk, clock, sessions, analyses, ticks, crashed,
            hw_emitted, pre_emitted>>
vars == <<pipeVars, videoVars, uiVars>>

-----------------------------------------------------------------------------
(* Bounds of the model *)
MaxFrames == 3       \* frames of a video asset in the video-analysis runs
MaxFuseFrames == 1   \* frames of a video asset in the fusion runs
PScale == 20         \* probabilities are the grid k / PScale, k \in 0..PScale
MaxTextLen == 2      \* tokens of a raw transcription
MaxTicks == 2        \* chunks and frames buffered in one recording
MaxSessions == 2     \* recordings started
MaxAnalyses == 1     \* file analyses started
MaxClock == 1        \* seconds the clock advances

NoResult == [none |-> TRUE]

\* A file is a record [name, content].  The files a write under `name`
\* replaces or adds (defined first: TLC orders records by their first-declared
\* field, and files of differing content types are told apart by name)
WriteFile(d, name, content) ==
    {f \in d : f.name # name} \cup {[name |-> name, content |-> content]}

-----------------------------------------------------------------------------
(* sentiment.py: labels *)
TextLabels == {"Positive", "Negative", "Neutral"}
\* the FER emotion keys, in the column order of the per-frame table
EmotionKeys == <<"angry", "disgust", "fear", "happy", "sad", "surprise", "neutral">>
\* the keys in sorted order (pandas Series.mode() returns its modes sorted)
SortedKeys == <<"angry", "disgust", "fear", "happy", "neutral", "sad", "surprise">>
VideoLabels == {"Happy", "Sad", "Angry", "Surprise", "Fear", "Disgust", "Neutral",
                "NoFace", "Unknown", "Error"}

\* str.capitalize() on the FER keys
Capitalize(k) ==
    CASE k = "angry" -> "Angry"
      [] k = "disgust" -> "Disgust"
      [] k = "fear" -> "Fear"
      [] k = "happy" -> "Happy"
      [] k = "sad" -> "Sad"
      [] k = "surprise" -> "Surprise"
      [] k = "neutral" -> "Neutral"
      [] OTHER -> k

-----------------------------------------------------------------------------
(* analyze_text_sentiment: thresholds on the positive-class probability     *)
(* p = k / PScale:  p > 0.6  <=>  10*k > 6*PScale                            *)
TextLabelMutStrictSwapped(k) ==
    IF 10 * k >= 6 * PScale THEN "Positive"
    ELSE IF 10 * k <= 4 * PScale THEN "Negative"
    ELSE "Neutral"

TextLabel(k) ==
    IF 10 * k > 6 * PScale THEN "Positive"
    ELSE IF 10 * k < 4 * PScale THEN "Negative"
    ELSE "Neutral"

-----------------------------------------------------------------------------
(* analyze_video_emotion *)

\* DataFrame.idxmax(axis=1) on one row: the first column holding the maximum
IdxMax(vec) ==
    LET m == CHOOSE x \in {vec[i] : i \in 1..Len(vec)} :
                 \A j \in 1..Len(vec) : vec[j] <= x
        i == CHOOSE i \in 1..Len(vec) :
                 vec[i] = m /\ \A j \in 1..(i - 1) : vec[j] # m
    IN EmotionKeys[i]

\* number of rows whose dominant key is k
CountOf(k, doms) == Cardinality({i \in 1..Len(doms) : doms[i] = k})

\* Series.mode(): the most frequent values, sorted; <<>> for an empty series
ModeMutLeast(doms) ==
    LET present == {i \in 1..7 : CountOf(SortedKeys[i], doms) > 0}
        best == {i \in present : \A j \in present :
                    CountOf(SortedKeys[j], doms) >= CountOf(SortedKeys[i], doms)}
    IN IF best = {} THEN <<>>
       ELSE <<SortedKeys[CHOOSE i \in best : \A j \in best : i <= j]>>

Mode(doms) ==
    LET present == {i \in 1..7 : CountOf(SortedKeys[i], doms) > 0}
        best == {i \in present : \A j \in present :
                    CountOf(SortedKeys[j], doms) <= CountOf(SortedKeys[i], doms)}
    IN IF best = {} THEN <<>>
       ELSE <<SortedKeys[CHOOSE i \in best : \A j \in best : i <= j]>>

\* the frames before the first one whose detection raises (the loop stops there)
RECURSIVE FirstRaise(_)
FirstRaise(frames) ==
    IF frames = <<>> THEN 0
    ELSE IF Head(frames).ret = "raise" THEN 1
    ELSE LET r == FirstRaise(Tail(frames)) IN IF r = 0 THEN 0 ELSE r + 1

\* result[0]['emotions']: the first detected face of a frame's result
FirstFaceMutLast(result) == result[Len(result)]

FirstFace(result) == result[1]

\* all_emotions: result[0]['emotions'] of every frame with a non-empty result
RECURSIVE AllEmotions(_)
AllEmotions(frames) ==
    IF frames = <<>> THEN <<>>
    ELSE IF Head(frames).faces # <<>>
         THEN <<FirstFace(Head(frames).faces)>> \o AllEmotions(Tail(frames))
         ELSE AllEmotions(Tail(frames))

Dominants(all_emotions) == [i \in 1..Len(all_emotions) |-> IdxMax(all_emotions[i])]

\* analyze_video_emotion(video_path): the label returned, whether the
\* per-frame table B_details.csv was written, whether cv2.VideoCapture was
\* called on the path, and the number of frames cap.read() gave
AnalyzeVideoEmotionMutNoFace(v) ==
    IF ~v.exists
    THEN [emotion |-> "Unknown", csv |-> FALSE, opened |-> FALSE, decoded |-> 0]
    ELSE IF ~v.opens
    THEN [emotion |-> "Error", csv |-> FALSE, opened |-> TRUE, decoded |-> 0]
    ELSE IF FirstRaise(v.frames) # 0
    THEN [emotion |-> "Error", csv |-> FALSE, opened |-> TRUE,
          decoded |-> FirstRaise(v.frames)]
    ELSE IF AllEmotions(v.frames) = <<>>
    THEN [emotion |-> "Unknown", csv |-> FALSE, opened |-> TRUE,
          decoded |-> Len(v.frames)]
    ELSE IF ~v.csv_ok
    THEN [emotion |-> "Error", csv |-> FALSE, opened |-> TRUE,
          decoded |-> Len(v.frames)]
    ELSE LET dominant_emotion == Mode(Dominants(AllEmotions(v.frames)))
         IN [emotion |-> IF dominant_emotion = <<>> THEN "Unknown"
                         ELSE Capitalize(dominant_emotion[1]),
             csv |-> TRUE, opened |-> TRUE, decoded |-> Len(v.frames)]

AnalyzeVideoEmotionMutOpen(v) ==
    IF ~v.exists
    THEN [emotion |-> "Unknown", csv |-> FALSE, opened |-> FALSE, decoded |-> 0]
    ELSE IF ~v.opens
    THEN [emotion |-> "NoFace", csv |-> FALSE, opened |-> TRUE, decoded |-> 0]
    ELSE IF FirstRaise(v.frames) # 0
    THEN [emotion |-> "NoFace", csv |-> FALSE, opened |-> TRUE,
          decoded |-> FirstRaise(v.frames)]
    ELSE IF AllEmotions(v.frames) = <<>>
    THEN [emotion |-> "NoFace", csv |-> FALSE, opened |-> TRUE,
          decoded |-> Len(v.frames)]
    ELSE IF ~v.csv_ok
    THEN [emotion |-> "Error", csv |-> FALSE, opened |-> TRUE,
          decoded |-> Len(v.frames)]
    ELSE LET dominant_emotion == Mode(Dominants(AllEmotions(v.frames)))
         IN [emotion |-> IF dominant_emotion = <<>> THEN "Unknown"
                         ELSE Capitalize(dominant_emotion[1]),
             csv |-> TRUE, opened |-> TRUE, decoded |-> Len(v.frames)]

AnalyzeVideoEmotionMutNoExistsCheck(v) ==
    IF FALSE
    THEN [emotion |-> "Unknown", csv |-> FALSE, opened |-> FALSE, decoded |-> 0]
    ELSE IF ~v.opens
    THEN [emotion |-> "Error", csv |-> FALSE, opened |-> TRUE, decoded |-> 0]
    ELSE IF FirstRaise(v.frames) # 0
    THEN [emotion |-> "Error", csv |-> FALSE, opened |-> TRUE,
          decoded |-> FirstRaise(v.frames)]
    ELSE IF AllEmotions(v.frames) = <<>>
    THEN [emotion |-> "NoFace", csv |-> FALSE, opened |-> TRUE,
          decoded |-> Len(v.frames)]
    ELSE IF ~v.csv_ok
    THEN [emotion |-> "Error", csv |-> FALSE, opened |-> TRUE,
          decoded |-> Len(v.frames)]
    ELSE LET dominant_emotion == Mode(Dominants(AllEmotions(v.frames)))
         IN [emotion |-> IF dominant_emotion = <<>> THEN "Unknown"
                         ELSE Capitalize(dominant_emotion[1]),
             csv |-> TRUE, opened |-> TRUE, decoded |-> Len(v.frames)]

AnalyzeVideoEmotion(v) ==
    IF ~v.exists
    THEN [emotion |-> "Unknown", csv |-> FALSE, opened |-> FALSE, decoded |-> 0]
    ELSE IF ~v.opens
    THEN [emotion |-> "Error", csv |-> FALSE, opened |-> TRUE, decoded |-> 0]
    ELSE IF FirstRaise(v.frames) # 0
    THEN [emotion |-> "Error", csv |-> FALSE, opened |-> TRUE,
          decoded |-> FirstRaise(v.frames)]
    ELSE IF AllEmotions(v.frames) = <<>>
    THEN [emotion |-> "NoFace", csv |-> FALSE, opened |-> TRUE,
          decoded |-> Len(v.frames)]
    ELSE IF ~v.csv_ok
    THEN [emotion |-> "Error", csv |-> FALSE, opened |-> TRUE,
          decoded |-> Len(v.frames)]
    ELSE LET dominant_emotion == Mode(Dominants(AllEmotions(v.frames)))
         IN [emotion |-> IF dominant_emotion = <<>> THEN "Unknown"
                         ELSE Capitalize(dominant_emotion[1]),
             csv |-> TRUE, opened |-> TRUE, decoded |-> Len(v.frames)]

-----------------------------------------------------------------------------
(* Inputs: video assets *)
OneHot(i) == [j \in 1..7 |-> IF j = i THEN 2 ELSE 0]
TieVec == [j \in 1..7 |-> 1]
\* detect_emotions on one frame: it raises, or returns a list of faces
FrameChoices ==
    {[ret |-> "raise", faces |-> <<>>], [ret |-> "ok", faces |-> <<>>]}
    \cup {[ret |-> "ok", faces |-> <<OneHot(i)>>] : i \in 1..7}
    \cup {[ret |-> "ok", faces |-> <<TieVec>>],
          [ret |-> "ok", faces |-> <<OneHot(4), OneHot(5)>>]}

RECURSIVE SeqsUpTo(_, _)
SeqsUpTo(S, n) ==
    IF n = 0 THEN {<<>>}
    ELSE LET shorter == SeqsUpTo(S, n - 1)
         IN shorter \cup {Append(s, x) : s \in {t \in shorter : Len(t) = n - 1}, x \in S}

VideosOf(n) ==
    {[exists |-> FALSE, opens |-> FALSE, frames |-> <<>>, csv_ok |-> TRUE],
     [exists |-> TRUE, opens |-> FALSE, frames |-> <<>>, csv_ok |-> TRUE]}
    \cup {[exists |-> TRUE, opens |-> TRUE, frames |-> f, csv_ok |-> c] :
              f \in SeqsUpTo(FrameChoices, n), c \in BOOLEAN}

NoVideo == [exists |-> FALSE, opens |-> FALSE, frames |-> <<>>, csv_ok |-> TRUE]

-----------------------------------------------------------------------------
(* The application before MainWindow starts the model loader *)
\* a worker object: its thread's state, the basename and the models it was
\* constructed with, and the paths its run works on (an AnalysisWorker) or
\* emits (a VideoPreprocessor)
NoWorker ==
    [state |-> "none", basename |-> NoResult, paths |-> NoResult, models |-> NoResult]

\* the transcriber, analyzer and responder fields of a tab: None until the
\* loader's finished signal hands over the three objects it constructed
NoModels == [transcriber |-> "None", analyzer |-> "None", responder |-> "None"]
LoadedModels ==
    [transcriber |-> "AudioTranscriber", analyzer |-> "SentimentAnalyzer",
     responder |-> "LLMResponder"]

UIIdle ==
    /\ loader = "idle"
    /\ hw = "idle"
    /\ cam_models_loaded = FALSE
    /\ cam_models = NoModels
    /\ file_models_loaded = FALSE
    /\ file_models = NoModels
    /\ recorder = FALSE
    /\ rec_is_recording = FALSE
    /\ audio_frames = <<>>
    /\ video_frames = <<>>
    /\ cam_is_recording = FALSE
    /\ cam_is_processing = FALSE
    /\ start_enabled = FALSE
    /\ current_basename = NoResult
    /\ timer_on = FALSE
    /\ frame_out = NoResult
    /\ flush = NoResult
    /\ cam_worker = NoWorker
    /\ file_video_path = NoResult
    /\ upload_enabled = FALSE
    /\ analyze_enabled = FALSE
    /\ pre = NoWorker
    /\ file_worker = NoWorker
    /\ disk = {}
    /\ clock = 0
    /\ sessions = 0
    /\ analyses = 0
    /\ ticks = 0
    /\ crashed = FALSE
    /\ hw_emitted = <<>>
    /\ pre_emitted = <<>>

-----------------------------------------------------------------------------
(* Specification of analyze_video_emotion on every asset of the bound *)
PipeIdle ==
    /\ wpc = "idle"
    /\ user_text = <<>>
    /\ sentiment_result = NoResult
    /\ ai_response = NoResult
    /\ steps = <<>>
    /\ responder_args = NoResult
    /\ sidecars = {}
    /\ finished_sig = <<>>
    /\ model_calls = 0
    /\ run_result = NoResult
    /\ audio = NoResult
    /\ clf = NoResult
    /\ gen = NoResult
    /\ prompt = NoResult
    /\ parsed = NoResult

InitVideo ==
    /\ PipeIdle
    /\ UIIdle
    /\ video \in VideosOf(MaxFrames)
    /\ video_out = NoResult

AnalyzeVideoStep ==
    /\ video_out = NoResult
    /\ video_out' = AnalyzeVideoEmotion(video)
    /\ UNCHANGED <<pipeVars, video, uiVars>>

NextVideo == AnalyzeVideoStep

SpecVideo == InitVideo /\ [][NextVideo]_vars

-----------------------------------------------------------------------------
(* get_multimodal_sentiment: the weighted fusion *)

\* text_weights.get(text_sentiment, 0), times 10
TextScore(t) ==
    CASE t = "Positive" -> 10
      [] t = "Negative" -> -10
      [] t = "Neutral" -> 0
      [] OTHER -> 0

\* video_weights.get(video_emotion, 0), times 10
VideoScoreMutSad(v) ==
    CASE v = "Happy" -> 10
      [] v = "Surprise" -> 5
      [] v = "Disgust" -> -10
      [] v = "Sad" -> -10
      [] v = "Angry" -> -10
      [] v = "Fear" -> -6
      [] v = "Neutral" -> 1
      [] OTHER -> 0

VideoScore(v) ==
    CASE v = "Happy" -> 10
      [] v = "Surprise" -> 5
      [] v = "Disgust" -> -10
      [] v = "Sad" -> -7
      [] v = "Angry" -> -10
      [] v = "Fear" -> -6
      [] v = "Neutral" -> 1
      [] OTHER -> 0

\* total_score = text_score * 0.6 + video_score * 0.4, times 100
TotalScoreMutVideoHeavy(t, v) == TextScore(t) * 3 + VideoScore(v) * 7

TotalScore(t, v) == TextScore(t) * 6 + VideoScore(v) * 4

FinalSentiment(t, v) ==
    IF TotalScore(t, v) >= 30 THEN "Positive"
    ELSE IF TotalScore(t, v) <= -30 THEN "Negative"
    ELSE "Neutral"

\* analyze_text_sentiment(text): the empty text is Neutral without a model
\* call; otherwise the classifier raises or gives the probability c.p / PScale
AnalyzeTextSentiment(text, c) ==
    IF text = <<>> THEN [raised |-> FALSE, sentiment |-> "Neutral"]
    ELSE IF c.raises THEN [raised |-> TRUE, sentiment |-> "Neutral"]
    ELSE [raised |-> FALSE, sentiment |-> TextLabel(c.p)]

\* get_multimodal_sentiment(video_path, text): text first, then the video;
\* an exception of the classifier leaves the function before the video is read
GetMultimodalSentiment(v, text, c) ==
    LET t == AnalyzeTextSentiment(text, c)
        ve == AnalyzeVideoEmotion(v)
    IN IF t.raised
       THEN [raised |-> TRUE, csv |-> FALSE, video_out |-> NoResult,
             result |-> NoResult]
       ELSE [raised |-> FALSE, csv |-> ve.csv, video_out |-> ve,
             result |-> [text_sentiment |-> t.sentiment,
                         video_emotion |-> ve.emotion,
                         final_sentiment |-> FinalSentiment(t.sentiment, ve.emotion)]]

-----------------------------------------------------------------------------
(* transcriber.py *)

\* str.strip() on a text of tokens: " " and "\n" are whitespace
Whitespace == {" ", "\n"}

RECURSIVE LStrip(_)
LStrip(t) == IF t # <<>> /\ Head(t) \in Whitespace THEN LStrip(Tail(t)) ELSE t

RECURSIVE RStrip(_)
RStrip(t) ==
    IF t # <<>> /\ t[Len(t)] \in Whitespace
    THEN RStrip(SubSeq(t, 1, Len(t) - 1))
    ELSE t

Strip(t) == RStrip(LStrip(t))

\* transcribe_audio(audio_path): "" for a missing file and for any exception
TranscribeAudio(a) ==
    IF ~a.exists THEN <<>>
    ELSE IF a.raises THEN <<>>
    ELSE Strip(a.text)

-----------------------------------------------------------------------------
(* responder.py *)

\* _build_prompt: the tone instruction (emotion_instruction) chosen by the
\* sentiment label
ToneOfMutElseComforting(sentiment) ==
    IF sentiment = "Positive" THEN "upbeat"
    ELSE IF sentiment = "Neutral" THEN "neutral"
    ELSE "comforting"

ToneOf(sentiment) ==
    IF sentiment = "Positive" THEN "upbeat"
    ELSE IF sentiment = "Negative" THEN "comforting"
    ELSE "neutral"

\* _build_prompt(user_text, sentiment): the messages handed to the chat
\* template; the system content is f"{system_prompt}\n{emotion_instruction}"
BuildPrompt(text, sentiment) ==
    <<[role |-> "system", content |-> <<"persona", ToneOf(sentiment)>>],
      [role |-> "user", content |-> text]>>

\* the fixed reply of generate_response for an empty user_text
\* (source literal: "我在这里，准备好倾听你的心声。")
FallbackReply == [kind |-> "fallback", tone |-> "none"]

\* generate_response(user_text, sentiment): the reply, the prompt it built,
\* the number of self.model.generate calls, and whether that call raised
GenerateResponseMutNoGuard(text, sentiment, g) ==
    IF g.raises
    THEN [raised |-> TRUE, calls |-> 1, response |-> NoResult,
          prompt |-> BuildPrompt(text, sentiment)]
    ELSE [raised |-> FALSE, calls |-> 1,
          response |-> [kind |-> "generated",
                        tone |-> BuildPrompt(text, sentiment)[1].content[2]],
          prompt |-> BuildPrompt(text, sentiment)]

GenerateResponse(text, sentiment, g) ==
    IF text = <<>>
    THEN [raised |-> FALSE, calls |-> 0, response |-> FallbackReply,
          prompt |-> NoResult]
    ELSE IF g.raises
    THEN [raised |-> TRUE, calls |-> 1, response |-> NoResult,
          prompt |-> BuildPrompt(text, sentiment)]
    ELSE [raised |-> FALSE, calls |-> 1,
          response |-> [kind |-> "generated",
                        tone |-> BuildPrompt(text, sentiment)[1].content[2]],
          prompt |-> BuildPrompt(text, sentiment)]

-----------------------------------------------------------------------------
(* analysis_pipeline.py, workers.py: one AnalysisWorker run *)

\* source literal: "(未能识别语音)"
PlaceholderMutEmpty == <<>>

Placeholder == <<"(speech not recognized)">>

\* if not user_text: user_text = "(未能识别语音)"
OrPlaceholderMutKeep(t) == t

OrPlaceholder(t) == IF t = <<>> THEN Placeholder ELSE t

\* the label AnalysisPipeline.run hands to generate_response
ResponderLabelMutText(r) == r.text_sentiment

ResponderLabel(r) == r.final_sentiment

\* the arguments of finished in the except branch of AnalysisWorker.run
\* (source literals: "处理出错", "抱歉，我遇到了一点问题。", "未知", "未知")
DegradedResult ==
    <<(<<"(processing error)">>), [kind |-> "apology", tone |-> "none"],
      "weizhi", "weizhi">>

\* the three lines run writes to B_sentiment.txt: f"Text Sentiment: {...}\n"
\* and so on; a line is a text of tokens, a label is one token
SentimentLines(r) ==
    <<(<<"Text Sentiment", ":", " ", r.text_sentiment, "\n">>),
      (<<"Video Emotion", ":", " ", r.video_emotion, "\n">>),
      (<<"Final Sentiment", ":", " ", r.final_sentiment, "\n">>)>>

\* line.startswith("<key>:")
StartsWith(line, key) == Len(line) >= 2 /\ line[1] = key /\ line[2] = ":"

\* str.split(": "): the pieces between the occurrences of ":" followed by " "
RECURSIVE Split(_)
Split(t) ==
    LET hits == {k \in 1..(Len(t) - 1) : t[k] = ":" /\ t[k + 1] = " "}
    IN IF hits = {} THEN <<t>>
       ELSE LET k == CHOOSE k \in hits : \A j \in hits : k <= j
            IN <<SubSeq(t, 1, k - 1)>> \o Split(SubSeq(t, k + 2, Len(t)))

\* line.strip().split(": ")[1]
ParseValueMutNoStrip(line) == Split(line)[2]

ParseValue(line) == Split(Strip(line))[2]

\* the value of the last line of the file that starts with the key, or the
\* default when no line does
RECURSIVE ReadKey(_, _, _)
ReadKey(lines, key, default) ==
    IF lines = <<>> THEN default
    ELSE LET rest == ReadKey(SubSeq(lines, 1, Len(lines) - 1), key, default)
             line == lines[Len(lines)]
         IN IF StartsWith(line, key) THEN ParseValue(line) ELSE rest

\* the value of the first line of the file that starts with the key (the
\* loop breaks there), or the default
RECURSIVE ReadFirstKey(_, _, _)
ReadFirstKey(lines, key, default) ==
    IF lines = <<>> THEN default
    ELSE IF StartsWith(Head(lines), key) THEN ParseValue(Head(lines))
    ELSE ReadFirstKey(Tail(lines), key, default)

\* _read_sentiment_details(file_path) for the text and the video label
\* (defaults "未知"), and the Final Sentiment loop of responder.py's main
\* program (default ""); `files` are the sidecars on disk
ReadSentimentDetails(files) ==
    IF \E f \in files : f.name = "B_sentiment.txt"
    THEN LET lines == (CHOOSE f \in files : f.name = "B_sentiment.txt").content
         IN [text_sentiment |-> ReadKey(lines, "Text Sentiment", <<"weizhi">>),
             video_emotion |-> ReadKey(lines, "Video Emotion", <<"weizhi">>),
             final_sentiment |-> ReadFirstKey(lines, "Final Sentiment", <<>>)]
    ELSE [text_sentiment |-> <<"weizhi">>, video_emotion |-> <<"weizhi">>,
          final_sentiment |-> <<>>]

\* Inputs
RawTexts == SeqsUpTo({" ", "x"}, MaxTextLen)
Audios ==
    {[exists |-> FALSE, raises |-> FALSE, text |-> <<>>],
     [exists |-> TRUE, raises |-> TRUE, text |-> <<>>]}
    \cup {[exists |-> TRUE, raises |-> FALSE, text |-> t] : t \in RawTexts}
ClfOutcomes ==
    {[raises |-> TRUE, p |-> 0]} \cup {[raises |-> FALSE, p |-> k] : k \in 0..PScale}
\* the classifier answers of the pipeline runs: one per label, and the exception
PipeClfOutcomes ==
    {[raises |-> TRUE, p |-> 0]}
    \cup {[raises |-> FALSE, p |-> k] : k \in {0, PScale \div 2, PScale}}
GenOutcomes == {[raises |-> TRUE], [raises |-> FALSE]}
\* the video assets of the pipeline runs
PipeVideos ==
    {[exists |-> FALSE, opens |-> FALSE, frames |-> <<>>, csv_ok |-> TRUE],
     [exists |-> TRUE, opens |-> FALSE, frames |-> <<>>, csv_ok |-> TRUE],
     [exists |-> TRUE, opens |-> TRUE, frames |-> <<>>, csv_ok |-> TRUE],
     [exists |-> TRUE, opens |-> TRUE,
      frames |-> <<[ret |-> "raise", faces |-> <<>>]>>, csv_ok |-> TRUE],
     [exists |-> TRUE, opens |-> TRUE,
      frames |-> <<[ret |-> "ok", faces |-> <<OneHot(4)>>]>>, csv_ok |-> TRUE],
     [exists |-> TRUE, opens |-> TRUE,
      frames |-> <<[ret |-> "ok", faces |-> <<OneHot(4)>>]>>, csv_ok |-> FALSE],
     [exists |-> TRUE, opens |-> TRUE,
      frames |-> <<[ret |-> "ok", faces |-> <<OneHot(5)>>]>>, csv_ok |-> TRUE],
     [exists |-> TRUE, opens |-> TRUE,
      frames |-> <<[ret |-> "ok", faces |-> <<OneHot(1)>>]>>, csv_ok |-> TRUE]}

\* AnalysisWorker.run up to the call of pipeline.run
WorkerStart ==
    /\ wpc = "idle"
    /\ wpc' = "transcribe"
    /\ UNCHANGED <<prompt, parsed, user_text, sentiment_result, ai_response, steps, responder_args,
                   sidecars, finished_sig, model_calls, run_result, audio, clf, gen,
                   videoVars, uiVars>>

\* run: user_text = transcribe_audio(audio_path), replaced when empty
Transcribe ==
    /\ wpc = "transcribe"
    /\ \E a \in Audios :
        /\ audio' = a
        /\ user_text' = OrPlaceholder(TranscribeAudio(a))
    /\ steps' = Append(steps, "transcribe")
    /\ wpc' = "save_text"
    /\ UNCHANGED <<prompt, parsed, sentiment_result, ai_response, responder_args, sidecars,
                   finished_sig, model_calls, run_result, clf, gen, videoVars, uiVars>>

\* run: self._save_text(audio_path, user_text); a failed write is only logged
SaveText ==
    /\ wpc = "save_text"
    /\ \E ok \in BOOLEAN :
        sidecars' = IF ok
                    THEN sidecars \cup {[name |-> "B.txt", content |-> user_text]}
                    ELSE sidecars
    /\ steps' = Append(steps, "save_text")
    /\ wpc' = "fuse"
    /\ UNCHANGED <<prompt, parsed, user_text, sentiment_result, ai_response, responder_args,
                   finished_sig, model_calls, run_result, audio, clf, gen, videoVars, uiVars>>

\* run: sentiment_result = get_multimodal_sentiment(video_path, user_text)
Fuse(V, C) ==
    /\ wpc = "fuse"
    /\ \E v \in V, c \in C :
        LET r == GetMultimodalSentiment(v, user_text, c)
        IN /\ video' = v
           /\ clf' = c
           /\ sentiment_result' = r.result
           /\ video_out' = r.video_out
           /\ sidecars' = IF r.csv
                          THEN sidecars \cup {[name |-> "B_details.csv",
                                               content |-> AllEmotions(v.frames)]}
                          ELSE sidecars
           /\ wpc' = IF r.raised THEN "raised" ELSE "save_sentiment"
    /\ steps' = Append(steps, "fuse")
    /\ UNCHANGED <<prompt, parsed, user_text, ai_response, responder_args, finished_sig,
                   model_calls, run_result, audio, gen, uiVars>>

FusePipe == Fuse(PipeVideos, PipeClfOutcomes)

\* run: write B_sentiment.txt; a failed write is only logged
SaveSentiment ==
    /\ wpc = "save_sentiment"
    /\ \E ok \in BOOLEAN :
        sidecars' = IF ok
                    THEN sidecars \cup
                         {[name |-> "B_sentiment.txt",
                           content |-> SentimentLines(sentiment_result)]}
                    ELSE sidecars
    /\ steps' = Append(steps, "save_sentiment")
    /\ wpc' = "respond"
    /\ UNCHANGED <<prompt, parsed, user_text, sentiment_result, ai_response, responder_args,
                   finished_sig, model_calls, run_result, audio, clf, gen, videoVars, uiVars>>

\* run: ai_response = generate_response(user_text, final_sentiment)
Respond ==
    /\ wpc = "respond"
    /\ \E g \in GenOutcomes :
        LET label == ResponderLabel(sentiment_result)
            r == GenerateResponse(user_text, label, g)
        IN /\ gen' = g
           /\ responder_args' = <<user_text, label>>
           /\ ai_response' = r.response
           /\ prompt' = r.prompt
           /\ model_calls' = model_calls + r.calls
           /\ wpc' = IF r.raised THEN "raised" ELSE "return"
    /\ steps' = Append(steps, "respond")
    /\ UNCHANGED <<parsed, user_text, sentiment_result, sidecars, finished_sig, run_result,
                   audio, clf, videoVars, uiVars>>

\* run: return user_text, ai_response, text_sentiment, video_emotion
Return ==
    /\ wpc = "return"
    /\ run_result' = <<user_text, ai_response, sentiment_result.text_sentiment,
                       sentiment_result.video_emotion>>
    /\ steps' = Append(steps, "return")
    /\ wpc' = "returned"
    /\ UNCHANGED <<prompt, parsed, user_text, sentiment_result, ai_response, responder_args, sidecars,
                   finished_sig, model_calls, audio, clf, gen, videoVars, uiVars>>

\* AnalysisWorker.run: self.finished.emit(user_text, ai_response, ...)
WorkerEmit ==
    /\ wpc = "returned"
    /\ finished_sig' = Append(finished_sig, run_result)
    /\ wpc' = "done"
    /\ UNCHANGED <<prompt, parsed, user_text, sentiment_result, ai_response, steps, responder_args,
                   sidecars, model_calls, run_result, audio, clf, gen, videoVars, uiVars>>

\* AnalysisWorker.run: except Exception: emit the degraded result
WorkerCatchMutSilent ==
    /\ wpc = "raised"
    /\ wpc' = "done"
    /\ UNCHANGED <<prompt, parsed, user_text, sentiment_result, ai_response, steps, responder_args,
                   sidecars, finished_sig, model_calls, run_result, audio, clf, gen,
                   videoVars, uiVars>>

WorkerCatch ==
    /\ wpc = "raised"
    /\ finished_sig' = Append(finished_sig, DegradedResult)
    /\ wpc' = "done"
    /\ UNCHANGED <<prompt, parsed, user_text, sentiment_result, ai_response, steps, responder_args,
                   sidecars, model_calls, run_result, audio, clf, gen, videoVars, uiVars>>

InitPipeline ==
    /\ PipeIdle
    /\ UIIdle
    /\ video = NoVideo
    /\ video_out = NoResult

NextPipeline ==
    \/ WorkerStart
    \/ Transcribe
    \/ SaveText
    \/ FusePipe
    \/ SaveSentiment
    \/ Respond
    \/ Return
    \/ WorkerEmit
    \/ WorkerCatch

SpecPipeline == InitPipeline /\ [][NextPipeline]_vars

-----------------------------------------------------------------------------
(* Specification of get_multimodal_sentiment on every text, classifier       *)
(* answer and video asset of the bound: the run enters at the fusion step    *)
FuseTexts == {<<>>, <<"x">>, Placeholder}

InitFuse ==
    /\ wpc = "fuse"
    /\ user_text \in FuseTexts
    /\ sentiment_result = NoResult
    /\ ai_response = NoResult
    /\ steps = <<>>
    /\ responder_args = NoResult
    /\ sidecars = {}
    /\ finished_sig = <<>>
    /\ model_calls = 0
    /\ run_result = NoResult
    /\ audio = NoResult
    /\ clf = NoResult
    /\ gen = NoResult
    /\ prompt = NoResult
    /\ parsed = NoResult
    /\ video = NoVideo
    /\ video_out = NoResult
    /\ UIIdle

FuseAll == Fuse(VideosOf(MaxFuseFrames), ClfOutcomes)

NextFuse == FuseAll

SpecFuse == InitFuse /\ [][NextFuse]_vars

-----------------------------------------------------------------------------
(* Specification of generate_response on every text and label of the bound: *)
(* the call is made on its own, with arguments the pipeline does not pass   *)
(* (the empty text, labels outside the enum) among them                     *)
ResponderTexts == RawTexts \cup {Placeholder}
ResponderLabels == TextLabels \cup {"Unknown", "positive", ""}

InitResponder ==
    /\ wpc = "generate"
    /\ user_text \in ResponderTexts
    /\ \E label \in ResponderLabels : responder_args = <<user_text, label>>
    /\ sentiment_result = NoResult
    /\ ai_response = NoResult
    /\ steps = <<>>
    /\ sidecars = {}
    /\ finished_sig = <<>>
    /\ model_calls = 0
    /\ run_result = NoResult
    /\ audio = NoResult
    /\ clf = NoResult
    /\ gen = NoResult
    /\ prompt = NoResult
    /\ parsed = NoResult
    /\ video = NoVideo
    /\ video_out = NoResult
    /\ UIIdle

\* responder.generate_response(user_text, sentiment)
GenerateResponseCall ==
    /\ wpc = "generate"
    /\ \E g \in GenOutcomes :
        LET r == GenerateResponse(responder_args[1], responder_args[2], g)
        IN /\ gen' = g
           /\ ai_response' = r.response
           /\ prompt' = r.prompt
           /\ model_calls' = model_calls + r.calls
           /\ wpc' = IF r.raised THEN "generate_raised" ELSE "generated"
    /\ UNCHANGED <<user_text, sentiment_result, steps, responder_args, sidecars,
                   finished_sig, run_result, audio, clf, parsed, videoVars, uiVars>>

NextResponder == GenerateResponseCall

SpecResponder == InitResponder /\ [][NextResponder]_vars

-----------------------------------------------------------------------------
(* Specification of the sentiment sidecar: the run enters at the write of   *)
(* B_sentiment.txt with every triple of labels, and the file is read back   *)
SentimentTriples ==
    [text_sentiment : TextLabels, video_emotion : VideoLabels,
     final_sentiment : TextLabels]

InitSidecar ==
    /\ wpc = "save_sentiment"
    /\ user_text = Placeholder
    /\ sentiment_result \in SentimentTriples
    /\ ai_response = NoResult
    /\ steps = <<>>
    /\ responder_args = NoResult
    /\ sidecars = {}
    /\ finished_sig = <<>>
    /\ model_calls = 0
    /\ run_result = NoResult
    /\ audio = NoResult
    /\ clf = NoResult
    /\ gen = NoResult
    /\ prompt = NoResult
    /\ parsed = NoResult
    /\ video = NoVideo
    /\ video_out = NoResult
    /\ UIIdle

\* the file is read back: _read_sentiment_details and the main program of
\* responder.py
ReadSidecar ==
    /\ wpc = "respond"
    /\ parsed = NoResult
    /\ parsed' = ReadSentimentDetails(sidecars)
    /\ UNCHANGED <<wpc, user_text, sentiment_result, ai_response, steps,
                   responder_args, sidecars, finished_sig, model_calls, run_result,
                   audio, clf, gen, prompt, videoVars, uiVars>>

NextSidecar ==
    \/ SaveSentiment
    \/ ReadSidecar

SpecSidecar == InitSidecar /\ [][NextSidecar]_vars

-----------------------------------------------------------------------------
(* The application: main_window.py, camera_tab.py, file_tab.py, workers.py,  *)
(* hardware.py.  A worker thread is "running" from start() until the last    *)
(* statement of its run(), which emits its completion signal; the slot runs  *)
(* later on the UI thread ("emitted" until then).  What AnalysisWorker.run   *)
(* computes is the run modelled above.                                       *)

\* datetime.now().strftime("%Y%m%d_%H%M%S") basenames
Basename(prefix) == [prefix |-> prefix, ts |-> clock]

\* time passes
ClockTick ==
    /\ ~crashed
    /\ clock < MaxClock
    /\ clock' = clock + 1
    /\ UNCHANGED <<ticks, pipeVars, videoVars, crashed, hw_emitted, pre_emitted,
                   loader, hw, cam_models_loaded, cam_models,
                   file_models_loaded, file_models, recorder, rec_is_recording, audio_frames,
                   video_frames, cam_is_recording, cam_is_processing, start_enabled,
                   current_basename, timer_on, frame_out, flush, cam_worker,
                   file_video_path, upload_enabled, analyze_enabled, pre, file_worker,
                   disk, sessions, analyses>>

\* ModelLoaderWorker.run: emits finished, or only a status text on failure
ModelLoaderRun ==
    /\ ~crashed
    /\ loader = "running"
    /\ \E ok \in BOOLEAN : loader' = IF ok THEN "emitted" ELSE "failed"
    /\ UNCHANGED <<ticks, pipeVars, videoVars, crashed, hw_emitted, pre_emitted,
                   hw, cam_models_loaded, cam_models, file_models_loaded, file_models,
                   recorder, rec_is_recording, audio_frames, video_frames,
                   cam_is_recording, cam_is_processing, start_enabled,
                   current_basename, timer_on, frame_out, flush, cam_worker,
                   file_video_path, upload_enabled, analyze_enabled, pre, file_worker,
                   disk, clock, sessions, analyses>>

\* CameraTab.on_models_loaded, and through models_loaded_signal
\* FileTab.on_models_ready; then the hardware worker is started
OnModelsLoadedMutOnFailure ==
    /\ ~crashed
    /\ loader \in {"emitted", "failed"}
    /\ loader' = IF loader = "failed" THEN "failed" ELSE "done"
    /\ cam_models_loaded' = TRUE
    /\ cam_models' = LoadedModels
    /\ file_models_loaded' = TRUE
    /\ file_models' = LoadedModels
    /\ upload_enabled' = TRUE
    /\ hw' = "running"
    /\ UNCHANGED <<ticks, pipeVars, videoVars, crashed, hw_emitted, pre_emitted,
                   recorder, rec_is_recording, audio_frames,
                   video_frames, cam_is_recording, cam_is_processing, start_enabled,
                   current_basename, timer_on, frame_out, flush, cam_worker,
                   file_video_path, analyze_enabled, pre, file_worker, disk, clock,
                   sessions, analyses>>

OnModelsLoadedMutNoAssign ==
    /\ ~crashed
    /\ loader = "emitted"
    /\ loader' = "done"
    /\ file_models_loaded' = TRUE
    /\ file_models' = LoadedModels
    /\ upload_enabled' = TRUE
    /\ hw' = "running"
    /\ UNCHANGED <<ticks, pipeVars, videoVars, crashed, hw_emitted, pre_emitted,
                   cam_models_loaded, cam_models,
                   recorder, rec_is_recording, audio_frames,
                   video_frames, cam_is_recording, cam_is_processing, start_enabled,
                   current_basename, timer_on, frame_out, flush, cam_worker,
                   file_video_path, analyze_enabled, pre, file_worker, disk, clock,
                   sessions, analyses>>

OnModelsLoaded ==
    /\ ~crashed
    /\ loader = "emitted"
    /\ loader' = "done"
    /\ cam_models_loaded' = TRUE
    /\ cam_models' = LoadedModels
    /\ file_models_loaded' = TRUE
    /\ file_models' = LoadedModels
    /\ upload_enabled' = TRUE
    /\ hw' = "running"
    /\ UNCHANGED <<ticks, pipeVars, videoVars, crashed, hw_emitted, pre_emitted,
                   recorder, rec_is_recording, audio_frames,
                   video_frames, cam_is_recording, cam_is_processing, start_enabled,
                   current_basename, timer_on, frame_out, flush, cam_worker,
                   file_video_path, analyze_enabled, pre, file_worker, disk, clock,
                   sessions, analyses>>

\* HardwareSetupWorker.run: the signals it emits, in order, when
\* VADRecorderUI() succeeds (ok) or raises
HardwareSetupWorkerRun(ok) == IF ok THEN <<"finished">> ELSE <<"error">>

\* the HardwareSetupWorker thread runs to its end
HardwareSetupRun ==
    /\ ~crashed
    /\ hw = "running"
    /\ \E ok \in BOOLEAN :
        LET emitted == HardwareSetupWorkerRun(ok)
        IN /\ hw_emitted' = emitted
           /\ hw' = IF emitted = <<>> THEN "silent"
                    ELSE IF Head(emitted) = "finished" THEN "emitted_ready"
                    ELSE "emitted_error"
    /\ UNCHANGED <<ticks, pipeVars, videoVars, crashed, pre_emitted,
                   loader, cam_models_loaded, cam_models, file_models_loaded, file_models,
                   recorder, rec_is_recording, audio_frames, video_frames,
                   cam_is_recording, cam_is_processing, start_enabled,
                   current_basename, timer_on, frame_out, flush, cam_worker,
                   file_video_path, upload_enabled, analyze_enabled, pre, file_worker,
                   disk, clock, sessions, analyses>>

\* CameraTab.on_hardware_ready (the recorder is as VADRecorderUI.__init__ left it)
OnHardwareReady ==
    /\ ~crashed
    /\ hw = "emitted_ready"
    /\ hw' = "ready"
    /\ recorder' = TRUE
    /\ rec_is_recording' = FALSE
    /\ audio_frames' = <<>>
    /\ video_frames' = <<>>
    /\ timer_on' = TRUE
    /\ start_enabled' = TRUE
    /\ UNCHANGED <<ticks, pipeVars, videoVars, crashed, hw_emitted, pre_emitted,
                   loader, cam_models_loaded, cam_models, file_models_loaded, file_models,
                   cam_is_recording, cam_is_processing, current_basename, frame_out,
                   flush, cam_worker, file_video_path, upload_enabled, analyze_enabled,
                   pre, file_worker, disk, clock, sessions, analyses>>

\* CameraTab.on_hardware_error: the status text and the clear button only
OnHardwareErrorMutEnables ==
    /\ ~crashed
    /\ hw = "emitted_error"
    /\ hw' = "error"
    /\ start_enabled' = TRUE
    /\ UNCHANGED <<ticks, pipeVars, videoVars, crashed, hw_emitted, pre_emitted,
                   loader, cam_models_loaded, cam_models, file_models_loaded, file_models,
                   recorder, rec_is_recording, audio_frames, video_frames,
                   cam_is_recording, cam_is_processing,
                   current_basename, timer_on, frame_out, flush, cam_worker,
                   file_video_path, upload_enabled, analyze_enabled, pre, file_worker,
                   disk, clock, sessions, analyses>>

OnHardwareError ==
    /\ ~crashed
    /\ hw = "emitted_error"
    /\ hw' = "error"
    /\ UNCHANGED <<ticks, pipeVars, videoVars, crashed, hw_emitted, pre_emitted,
                   loader, cam_models_loaded, cam_models, file_models_loaded, file_models,
                   recorder, rec_is_recording, audio_frames, video_frames,
                   cam_is_recording, cam_is_processing, start_enabled,
                   current_basename, timer_on, frame_out, flush, cam_worker,
                   file_video_path, upload_enabled, analyze_enabled, pre, file_worker,
                   disk, clock, sessions, analyses>>

\* what one tick reads from the hardware: the camera gives no frame
\* (cap.read() returns ret False), or stream.read raises, or both reads succeed
ReadOutcomes == {"ok", "no_frame", "audio_raises"}

\* the frame cap.read() returns and the chunk stream.read returns, tagged with
\* the session they are captured in (0 while the recorder is not recording)
\* and the number of the tick in it
RawFrame ==
    [s |-> IF rec_is_recording THEN sessions ELSE 0,
     i |-> ticks + 1, overlay |-> "none"]
AudioData ==
    [s |-> IF rec_is_recording THEN sessions ELSE 0, i |-> ticks + 1]

\* get_current_frame: the status text drawn on a new image of the frame
DrawStatus(frame) ==
    [frame EXCEPT !.overlay = IF rec_is_recording THEN "recording" ELSE "ready"]

\* get_current_frame: frame.copy(), taken before the status text is drawn
FrameCopyMutDrawn(frame) == DrawStatus(frame)

FrameCopy(frame) == frame

\* VADRecorderUI.get_current_frame: the frame it returns (NoResult for None),
\* whether it raises, and the buffers it leaves
GetCurrentFrame(read) ==
    IF read = "no_frame"
    THEN [ret |-> NoResult, raised |-> FALSE,
          audio_frames |-> audio_frames, video_frames |-> video_frames]
    ELSE IF read = "audio_raises"
    THEN [ret |-> NoResult, raised |-> TRUE,
          audio_frames |-> audio_frames, video_frames |-> video_frames]
    ELSE [ret |-> DrawStatus(RawFrame), raised |-> FALSE,
          audio_frames |-> IF rec_is_recording
                           THEN Append(audio_frames, AudioData)
                           ELSE audio_frames,
          video_frames |-> IF rec_is_recording
                           THEN Append(video_frames, FrameCopy(RawFrame))
                           ELSE video_frames]

\* CameraTab.update_frame on a timer tick.  An exception of get_current_frame
\* leaves the slot uncaught: the process is aborted, or the exception is only
\* reported and the event loop goes on, as the PyQt5 build decides
UpdateFrame ==
    /\ ~crashed
    /\ timer_on
    /\ recorder
    /\ rec_is_recording => ticks < MaxTicks
    /\ \E read \in ReadOutcomes :
        LET got == GetCurrentFrame(read)
        IN /\ frame_out' = [read |-> read, raised |-> got.raised,
                            frame |-> got.ret # NoResult,
                            overlay |-> IF got.ret = NoResult THEN "none"
                                        ELSE got.ret.overlay,
                            recording |-> rec_is_recording]
           /\ audio_frames' = got.audio_frames
           /\ video_frames' = got.video_frames
           /\ ticks' = IF read = "ok" /\ rec_is_recording THEN ticks + 1 ELSE ticks
           /\ IF got.raised THEN crashed' \in BOOLEAN ELSE crashed' = crashed
    /\ UNCHANGED <<pipeVars, videoVars, hw_emitted, pre_emitted, loader, hw,
                   cam_models_loaded, cam_models, file_models_loaded, file_models, recorder, rec_is_recording,
                   cam_is_recording, cam_is_processing, start_enabled,
                   current_basename, timer_on, flush, cam_worker, file_video_path,
                   upload_enabled, analyze_enabled, pre, file_worker, disk, clock,
                   sessions, analyses>>

\* CameraTab.start_recording
StartRecordingMutKeep ==
    /\ sessions < MaxSessions
    /\ IF ~recorder
       THEN UNCHANGED <<cam_is_recording, current_basename, audio_frames,
                        video_frames, rec_is_recording, sessions, ticks>>
       ELSE /\ cam_is_recording' = TRUE
            /\ current_basename' = Basename("output")
            /\ UNCHANGED <<audio_frames, video_frames>>
            /\ rec_is_recording' = TRUE
            /\ sessions' = sessions + 1
            /\ ticks' = 0
    /\ UNCHANGED <<cam_is_processing, start_enabled, flush, cam_worker, disk>>

StartRecording ==
    /\ sessions < MaxSessions
    /\ IF ~recorder
       THEN UNCHANGED <<cam_is_recording, current_basename, audio_frames,
                        video_frames, rec_is_recording, sessions, ticks>>
       ELSE /\ cam_is_recording' = TRUE
            /\ current_basename' = Basename("output")
            /\ audio_frames' = <<>>
            /\ video_frames' = <<>>
            /\ rec_is_recording' = TRUE
            /\ sessions' = sessions + 1
            /\ ticks' = 0
    /\ UNCHANGED <<cam_is_processing, start_enabled, flush, cam_worker, disk>>

\* VADRecorderUI.manual_save_recording(basename): None when a buffer is empty
\* or a write raises; `outcome` says which write raises, if any; `writes` are
\* the files written, in order
ManualSaveRecordingMutNoCheck(basename, outcome) ==
    IF outcome = "wav_fails"
    THEN [ret |-> NoResult, writes |-> <<>>]
    ELSE IF outcome = "avi_fails"
    THEN [ret |-> NoResult,
          writes |-> <<[name |-> <<basename, "wav">>, content |-> audio_frames]>>]
    ELSE [ret |-> basename,
          writes |-> <<[name |-> <<basename, "wav">>, content |-> audio_frames],
                       [name |-> <<basename, "avi">>, content |-> video_frames]>>]

ManualSaveRecordingMutDropFirst(basename, outcome) ==
    IF audio_frames = <<>> \/ video_frames = <<>>
    THEN [ret |-> NoResult, writes |-> <<>>]
    ELSE IF outcome = "wav_fails"
    THEN [ret |-> NoResult, writes |-> <<>>]
    ELSE IF outcome = "avi_fails"
    THEN [ret |-> NoResult,
          writes |-> <<[name |-> <<basename, "wav">>, content |-> audio_frames]>>]
    ELSE [ret |-> basename,
          writes |-> <<[name |-> <<basename, "wav">>, content |-> audio_frames],
                       [name |-> <<basename, "avi">>,
                        content |-> Tail(video_frames)]>>]

ManualSaveRecording(basename, outcome) ==
    IF audio_frames = <<>> \/ video_frames = <<>>
    THEN [ret |-> NoResult, writes |-> <<>>]
    ELSE IF outcome = "wav_fails"
    THEN [ret |-> NoResult, writes |-> <<>>]
    ELSE IF outcome = "avi_fails"
    THEN [ret |-> NoResult,
          writes |-> <<[name |-> <<basename, "wav">>, content |-> audio_frames]>>]
    ELSE [ret |-> basename,
          writes |-> <<[name |-> <<basename, "wav">>, content |-> audio_frames],
                       [name |-> <<basename, "avi">>, content |-> video_frames]>>]

\* the files after the writes ws, in order
RECURSIVE ApplyWrites(_, _)
ApplyWrites(d, ws) ==
    IF ws = <<>> THEN d
    ELSE ApplyWrites(WriteFile(d, Head(ws).name, Head(ws).content), Tail(ws))

SaveOutcomes == {"ok", "wav_fails", "avi_fails"}

\* the branch stop_recording takes on what manual_save_recording returned:
\* the save failed; or start_analysis finds the models not loaded; or
\* start_analysis starts the worker
StopBranch(ret) ==
    IF ret = NoResult THEN "save_failed"
    ELSE IF ~cam_models_loaded THEN "models_loading"
    ELSE "analysis"

\* CameraTab.stop_recording, with manual_save_recording and start_analysis
StopRecordingMutKeepsCapturing ==
    IF ~recorder \/ ~cam_is_recording
    THEN UNCHANGED <<cam_is_recording, cam_is_processing, start_enabled,
                     rec_is_recording, flush, disk, cam_worker, current_basename,
                     audio_frames, video_frames, sessions, ticks>>
    ELSE /\ cam_is_recording' = FALSE
         /\ UNCHANGED rec_is_recording
         /\ \E outcome \in SaveOutcomes :
             LET saved == ManualSaveRecording(current_basename, outcome)
             IN /\ disk' = ApplyWrites(disk, saved.writes)
                /\ flush' = [session |-> sessions, audio |-> audio_frames,
                             video |-> video_frames, ret |-> saved.ret,
                             branch |-> StopBranch(saved.ret),
                             writes |-> saved.writes,
                             written |-> {saved.writes[i].name :
                                             i \in 1..Len(saved.writes)}]
                /\ IF StopBranch(saved.ret) = "analysis"
                   THEN \* start_analysis(basename): the worker is started
                        /\ cam_is_processing' = TRUE
                        /\ start_enabled' = FALSE
                        /\ cam_worker' = [state |-> "running", basename |-> saved.ret,
                                        paths |-> NoResult, models |-> cam_models]
                   ELSE \* the save failed, or the models are not loaded: reset
                        /\ cam_is_processing' = FALSE
                        /\ start_enabled' = TRUE
                        /\ UNCHANGED cam_worker
         /\ UNCHANGED <<current_basename, audio_frames, video_frames, sessions, ticks>>

StopRecording ==
    IF ~recorder \/ ~cam_is_recording
    THEN UNCHANGED <<cam_is_recording, cam_is_processing, start_enabled,
                     rec_is_recording, flush, disk, cam_worker, current_basename,
                     audio_frames, video_frames, sessions, ticks>>
    ELSE /\ cam_is_recording' = FALSE
         /\ rec_is_recording' = FALSE
         /\ \E outcome \in SaveOutcomes :
             LET saved == ManualSaveRecording(current_basename, outcome)
             IN /\ disk' = ApplyWrites(disk, saved.writes)
                /\ flush' = [session |-> sessions, audio |-> audio_frames,
                             video |-> video_frames, ret |-> saved.ret,
                             branch |-> StopBranch(saved.ret),
                             writes |-> saved.writes,
                             written |-> {saved.writes[i].name :
                                             i \in 1..Len(saved.writes)}]
                /\ IF StopBranch(saved.ret) = "analysis"
                   THEN \* start_analysis(basename): the worker is started
                        /\ cam_is_processing' = TRUE
                        /\ start_enabled' = FALSE
                        /\ cam_worker' = [state |-> "running", basename |-> saved.ret,
                                        paths |-> NoResult, models |-> cam_models]
                   ELSE \* the save failed, or the models are not loaded: reset
                        /\ cam_is_processing' = FALSE
                        /\ start_enabled' = TRUE
                        /\ UNCHANGED cam_worker
         /\ UNCHANGED <<current_basename, audio_frames, video_frames, sessions, ticks>>

\* os.path.splitext(os.path.basename(path))[0]
SplitExtBasename(path) == path[1]

\* AnalysisWorker.run: audio_path and video_path, RESULTS_DIR joined with
\* self.basename + ".wav" and self.basename + ".avi"
AnalysisWorkerPathsMutVideo(basename) ==
    [audio |-> <<basename, "wav">>, video |-> <<Basename("output"), "avi">>]

AnalysisWorkerPaths(basename) ==
    [audio |-> <<basename, "wav">>, video |-> <<basename, "avi">>]

\* a click on the start button: CameraTab.toggle_recording
ToggleRecording ==
    /\ ~crashed
    /\ start_enabled
    /\ IF ~cam_is_recording THEN StartRecording ELSE StopRecording
    /\ UNCHANGED <<pipeVars, videoVars, crashed, hw_emitted, pre_emitted,
                   loader, hw, cam_models_loaded, cam_models,
                   file_models_loaded, file_models, recorder, timer_on, frame_out, file_video_path,
                   upload_enabled, analyze_enabled, pre, file_worker, clock, analyses>>

\* AnalysisWorker.run of the CameraTab's worker, to its finished.emit
CamWorkerRun ==
    /\ ~crashed
    /\ cam_worker.state = "running"
    /\ cam_worker' = [cam_worker EXCEPT !.state = "emitted",
                                      !.paths = AnalysisWorkerPaths(cam_worker.basename)]
    /\ UNCHANGED <<ticks, pipeVars, videoVars, crashed, hw_emitted, pre_emitted,
                   loader, hw, cam_models_loaded, cam_models,
                   file_models_loaded, file_models, recorder, rec_is_recording, audio_frames,
                   video_frames, cam_is_recording, cam_is_processing, start_enabled,
                   current_basename, timer_on, frame_out, flush, file_video_path,
                   upload_enabled, analyze_enabled, pre, file_worker, disk, clock,
                   sessions, analyses>>

\* CameraTab.on_analysis_complete
CamOnAnalysisComplete ==
    /\ ~crashed
    /\ cam_worker.state = "emitted"
    /\ cam_worker' = NoWorker
    /\ start_enabled' = TRUE
    /\ cam_is_processing' = FALSE
    /\ UNCHANGED <<ticks, pipeVars, videoVars, crashed, hw_emitted, pre_emitted,
                   loader, hw, cam_models_loaded, cam_models,
                   file_models_loaded, file_models, recorder, rec_is_recording, audio_frames,
                   video_frames, cam_is_recording, current_basename, timer_on,
                   frame_out, flush, file_video_path, upload_enabled, analyze_enabled,
                   pre, file_worker, disk, clock, sessions, analyses>>

\* the files the user can pick: the dialog is cancelled, or the file cannot be
\* opened, or its first frame cannot be read, or it previews
UploadChoices == {"cancel", "unopenable", "unreadable", "good"}

\* a click on the upload button: FileTab.upload_video
UploadVideo ==
    /\ ~crashed
    /\ upload_enabled
    /\ \E choice \in UploadChoices :
        IF choice = "cancel"
        THEN UNCHANGED <<file_video_path, analyze_enabled>>
        ELSE /\ file_video_path' = [file |-> choice]
             /\ analyze_enabled' = IF choice = "good" THEN TRUE ELSE analyze_enabled
    /\ UNCHANGED <<ticks, pipeVars, videoVars, crashed, hw_emitted, pre_emitted,
                   loader, hw, cam_models_loaded, cam_models,
                   file_models_loaded, file_models, recorder, rec_is_recording, audio_frames,
                   video_frames, cam_is_recording, cam_is_processing, start_enabled,
                   current_basename, timer_on, frame_out, flush, cam_worker,
                   upload_enabled, pre, file_worker, disk, clock, sessions, analyses>>

\* a click on the analyze button: FileTab.analyze_video
AnalyzeVideo ==
    /\ ~crashed
    /\ analyze_enabled
    /\ analyses < MaxAnalyses
    /\ IF file_video_path = NoResult
       THEN UNCHANGED <<upload_enabled, analyze_enabled, pre, pre_emitted, analyses>>
       ELSE /\ upload_enabled' = FALSE
            /\ analyze_enabled' = FALSE
            /\ pre' = [NoWorker EXCEPT !.state = "running"]
            /\ pre_emitted' = <<>>
            /\ analyses' = analyses + 1
    /\ UNCHANGED <<ticks, pipeVars, videoVars, crashed, hw_emitted,
                   loader, hw, cam_models_loaded, cam_models,
                   file_models_loaded, file_models, recorder, rec_is_recording, audio_frames,
                   video_frames, cam_is_recording, cam_is_processing, start_enabled,
                   current_basename, timer_on, frame_out, flush, cam_worker,
                   file_video_path, file_worker, disk, clock, sessions>>

\* VideoPreprocessor.run: the upload cannot be opened; or the frame copy raises
\* after the output video is created (frame_count is 0, a write fails); or
\* FFmpeg exits with an error, is not installed, or cannot be started for
\* another reason; or both files are written
PreOutcomes == {"cannot_open", "copy_raises", "ffmpeg_fails", "ffmpeg_missing",
                "ffmpeg_oserror", "ok"}

\* the signals the run emits, in order, and the files it writes
VideoPreprocessorRunMutNoReturn(outcome, basename, path) ==
    IF outcome = "cannot_open"
    THEN [emitted |-> <<"error", "finished">>,
          writes |-> <<[name |-> <<basename, "avi">>, content |-> <<path>>],
                       [name |-> <<basename, "wav">>, content |-> <<path>>]>>]
    ELSE IF outcome = "copy_raises"
    THEN [emitted |-> <<"error">>,
          writes |-> <<[name |-> <<basename, "avi">>, content |-> <<[file |-> "partial"]>>]>>]
    ELSE IF outcome \in {"ffmpeg_fails", "ffmpeg_missing", "ffmpeg_oserror"}
    THEN [emitted |-> <<"error">>,
          writes |-> <<[name |-> <<basename, "avi">>, content |-> <<path>>]>>]
    ELSE [emitted |-> <<"finished">>,
          writes |-> <<[name |-> <<basename, "avi">>, content |-> <<path>>],
                       [name |-> <<basename, "wav">>, content |-> <<path>>]>>]

VideoPreprocessorRun(outcome, basename, path) ==
    IF outcome = "cannot_open"
    THEN [emitted |-> <<"error">>, writes |-> <<>>]
    ELSE IF outcome = "copy_raises"
    THEN [emitted |-> <<"error">>,
          writes |-> <<[name |-> <<basename, "avi">>, content |-> <<[file |-> "partial"]>>]>>]
    ELSE IF outcome \in {"ffmpeg_fails", "ffmpeg_missing", "ffmpeg_oserror"}
    THEN [emitted |-> <<"error">>,
          writes |-> <<[name |-> <<basename, "avi">>, content |-> <<path>>]>>]
    ELSE [emitted |-> <<"finished">>,
          writes |-> <<[name |-> <<basename, "avi">>, content |-> <<path>>],
                       [name |-> <<basename, "wav">>, content |-> <<path>>]>>]

\* the VideoPreprocessor thread runs to its end
PreprocessorRun ==
    /\ ~crashed
    /\ pre.state = "running"
    /\ \E outcome \in PreOutcomes :
        LET basename == Basename("uploaded")
            done == VideoPreprocessorRun(outcome, basename, file_video_path)
        IN /\ pre_emitted' = done.emitted
           /\ disk' = ApplyWrites(disk, done.writes)
           /\ pre' = IF done.emitted = <<>>
                     THEN [pre EXCEPT !.state = "silent"]
                     ELSE IF Head(done.emitted) = "finished"
                     THEN [pre EXCEPT !.state = "emitted_finished",
                                      !.paths = [video |-> <<basename, "avi">>,
                                                 audio |-> <<basename, "wav">>]]
                     ELSE [pre EXCEPT !.state = "emitted_error"]
    /\ UNCHANGED <<ticks, pipeVars, videoVars, crashed, hw_emitted, loader, hw,
                   cam_models_loaded, cam_models, file_models_loaded, file_models, recorder, rec_is_recording,
                   audio_frames, video_frames, cam_is_recording, cam_is_processing,
                   start_enabled, current_basename, timer_on, frame_out, flush,
                   cam_worker, file_video_path, upload_enabled, analyze_enabled,
                   file_worker, clock, sessions, analyses>>

\* FileTab.on_preprocessing_complete: the analysis worker is started
OnPreprocessingComplete ==
    /\ ~crashed
    /\ pre.state = "emitted_finished"
    /\ file_worker' = [state |-> "running",
                       basename |-> SplitExtBasename(pre.paths.audio),
                       paths |-> NoResult, models |-> file_models]
    /\ pre' = NoWorker
    /\ UNCHANGED <<ticks, pipeVars, videoVars, crashed, hw_emitted, pre_emitted,
                   loader, hw, cam_models_loaded, cam_models,
                   file_models_loaded, file_models, recorder, rec_is_recording, audio_frames,
                   video_frames, cam_is_recording, cam_is_processing, start_enabled,
                   current_basename, timer_on, frame_out, flush, cam_worker,
                   file_video_path, upload_enabled, analyze_enabled, disk, clock,
                   sessions, analyses>>

\* FileTab.on_preprocessing_error
OnPreprocessingError ==
    /\ ~crashed
    /\ pre.state = "emitted_error"
    /\ pre' = NoWorker
    /\ upload_enabled' = TRUE
    /\ analyze_enabled' = TRUE
    /\ UNCHANGED <<ticks, pipeVars, videoVars, crashed, hw_emitted, pre_emitted,
                   loader, hw, cam_models_loaded, cam_models,
                   file_models_loaded, file_models, recorder, rec_is_recording, audio_frames,
                   video_frames, cam_is_recording, cam_is_processing, start_enabled,
                   current_basename, timer_on, frame_out, flush, cam_worker,
                   file_video_path, file_worker, disk, clock, sessions, analyses>>

\* AnalysisWorker.run of the FileTab's worker, to its finished.emit
FileWorkerRun ==
    /\ ~crashed
    /\ file_worker.state = "running"
    /\ file_worker' = [file_worker EXCEPT !.state = "emitted",
                                        !.paths = AnalysisWorkerPaths(file_worker.basename)]
    /\ UNCHANGED <<ticks, pipeVars, videoVars, crashed, hw_emitted, pre_emitted,
                   loader, hw, cam_models_loaded, cam_models,
                   file_models_loaded, file_models, recorder, rec_is_recording, audio_frames,
                   video_frames, cam_is_recording, cam_is_processing, start_enabled,
                   current_basename, timer_on, frame_out, flush, cam_worker,
                   file_video_path, upload_enabled, analyze_enabled, pre, disk, clock,
                   sessions, analyses>>

\* FileTab.on_analysis_complete
FileOnAnalysisComplete ==
    /\ ~crashed
    /\ file_worker.state = "emitted"
    /\ file_worker' = NoWorker
    /\ upload_enabled' = TRUE
    /\ analyze_enabled' = TRUE
    /\ UNCHANGED <<ticks, pipeVars, videoVars, crashed, hw_emitted, pre_emitted,
                   loader, hw, cam_models_loaded, cam_models,
                   file_models_loaded, file_models, recorder, rec_is_recording, audio_frames,
                   video_frames, cam_is_recording, cam_is_processing, start_enabled,
                   current_basename, timer_on, frame_out, flush, cam_worker,
                   file_video_path, pre, disk, clock, sessions, analyses>>

\* MainWindow.__init__: both tabs built, camera_tab.load_models() called
InitUI ==
    /\ PipeIdle
    /\ video = NoVideo
    /\ video_out = NoResult
    /\ loader = "running"
    /\ hw = "idle"
    /\ cam_models_loaded = FALSE
    /\ cam_models = NoModels
    /\ file_models_loaded = FALSE
    /\ file_models = NoModels
    /\ recorder = FALSE
    /\ rec_is_recording = FALSE
    /\ audio_frames = <<>>
    /\ video_frames = <<>>
    /\ cam_is_recording = FALSE
    /\ cam_is_processing = FALSE
    /\ start_enabled = FALSE
    /\ current_basename = NoResult
    /\ timer_on = FALSE
    /\ frame_out = NoResult
    /\ flush = NoResult
    /\ cam_worker = NoWorker
    /\ file_video_path = NoResult
    /\ upload_enabled = FALSE
    /\ analyze_enabled = FALSE
    /\ pre = NoWorker
    /\ file_worker = NoWorker
    /\ disk = {}
    /\ clock = 0
    /\ sessions = 0
    /\ analyses = 0
    /\ ticks = 0
    /\ crashed = FALSE
    /\ hw_emitted = <<>>
    /\ pre_emitted = <<>>

NextUI ==
    \/ ClockTick
    \/ ModelLoaderRun
    \/ OnModelsLoaded
    \/ HardwareSetupRun
    \/ OnHardwareReady
    \/ OnHardwareError
    \/ UpdateFrame
    \/ ToggleRecording
    \/ CamWorkerRun
    \/ CamOnAnalysisComplete
    \/ UploadVideo
    \/ AnalyzeVideo
    \/ PreprocessorRun
    \/ OnPreprocessingComplete
    \/ OnPreprocessingError
    \/ FileWorkerRun
    \/ FileOnAnalysisComplete

SpecUI == InitUI /\ [][NextUI]_vars

-----------------------------------------------------------------------------
(* The camera side of the application alone: the loader, the hardware       *)
(* worker, the CameraTab and its recorder.  The FileTab reads and writes    *)
(* none of their fields, and its files carry another prefix.                *)
NextRecorder ==
    \/ ClockTick
    \/ ModelLoaderRun
    \/ OnModelsLoaded
    \/ HardwareSetupRun
    \/ OnHardwareReady
    \/ OnHardwareError
    \/ UpdateFrame
    \/ ToggleRecording
    \/ CamWorkerRun
    \/ CamOnAnalysisComplete

SpecRecorder == InitUI /\ [][NextRecorder]_vars

-----------------------------------------------------------------------------
(* The worker threads: the loader, the hardware worker, and on the FileTab  *)
(* the preprocessor and the analysis worker, whose run is the run modelled  *)
(* step by step above.  The clock, which only names the files, stands.     *)

\* the steps of AnalysisWorker.run while the FileTab's worker thread runs
FileWorkerSteps ==
    /\ ~crashed
    /\ file_worker.state = "running"
    /\ NextPipeline

\* the FileTab's worker thread ends once its run has emitted
FileWorkerEnds ==
    /\ wpc = "done"
    /\ FileWorkerRun

\* FileTab.on_analysis_complete; the AnalysisWorker object is dropped, the
\* next on_preprocessing_complete constructs a new one (the run variables,
\* sidecars among them, are those of the current worker's run)
FileWorkerDropped ==
    /\ wpc = "done"
    /\ file_worker.state = "emitted"
    /\ file_worker' = NoWorker
    /\ upload_enabled' = TRUE
    /\ analyze_enabled' = TRUE
    /\ wpc' = "idle"
    /\ user_text' = <<>>
    /\ sentiment_result' = NoResult
    /\ ai_response' = NoResult
    /\ steps' = <<>>
    /\ responder_args' = NoResult
    /\ finished_sig' = <<>>
    /\ model_calls' = 0
    /\ run_result' = NoResult
    /\ audio' = NoResult
    /\ clf' = NoResult
    /\ gen' = NoResult
    /\ prompt' = NoResult
    /\ sidecars' = {}
    /\ video' = NoVideo
    /\ video_out' = NoResult
    /\ UNCHANGED <<parsed, ticks, crashed, hw_emitted, pre_emitted, loader, hw,
                   cam_models_loaded, cam_models, file_models_loaded, file_models, recorder, rec_is_recording,
                   audio_frames, video_frames, cam_is_recording, cam_is_processing,
                   start_enabled, current_basename, timer_on, frame_out, flush,
                   cam_worker, file_video_path, pre, disk, clock, sessions, analyses>>

NextWorkers ==
    \/ ModelLoaderRun
    \/ OnModelsLoaded
    \/ HardwareSetupRun
    \/ OnHardwareReady
    \/ OnHardwareError
    \/ UploadVideo
    \/ AnalyzeVideo
    \/ PreprocessorRun
    \/ OnPreprocessingComplete
    \/ OnPreprocessingError
    \/ FileWorkerSteps
    \/ FileWorkerEnds
    \/ FileWorkerDropped

SpecWorkers == InitUI /\ [][NextWorkers]_vars

-----------------------------------------------------------------------------
(* The two tabs together: every worker and every slot of the application,   *)
(* the clock standing (basenames differ by their prefix).                   *)
NextTabs ==
    \/ ModelLoaderRun
    \/ OnModelsLoaded
    \/ HardwareSetupRun
    \/ OnHardwareReady
    \/ OnHardwareError
    \/ UpdateFrame
    \/ ToggleRecording
    \/ CamWorkerRun
    \/ CamOnAnalysisComplete
    \/ UploadVideo
    \/ AnalyzeVideo
    \/ PreprocessorRun
    \/ OnPreprocessingComplete
    \/ OnPreprocessingError
    \/ FileWorkerRun
    \/ FileOnAnalysisComplete

SpecTabs == InitUI /\ [][NextTabs]_vars

\* The same with the scheduling the application relies on: a worker thread
\* that was started runs to its end, and the event loop delivers every
\* emitted signal to its slot
TabsFairness ==
    /\ WF_vars(CamWorkerRun)
    /\ WF_vars(CamOnAnalysisComplete)
    /\ WF_vars(PreprocessorRun)
    /\ WF_vars(OnPreprocessingComplete)
    /\ WF_vars(OnPreprocessingError)
    /\ WF_vars(FileWorkerRun)
    /\ WF_vars(FileOnAnalysisComplete)

SpecTabsFair == InitUI /\ [][NextTabs]_vars /\ TabsFairness

-----------------------------------------------------------------------------
(* Properties *)

Last(q) == q[Len(q)]
RunSteps == <<"transcribe", "save_text", "fuse", "save_sentiment", "respond", "return">>
ResultKeys == {"text_sentiment", "video_emotion", "final_sentiment"}

\* the scores the fusion contract names, times 10
ContractTextScore(t) == IF t = "Positive" THEN 10 ELSE IF t = "Negative" THEN -10 ELSE 0
ContractVideoScore(v) ==
    IF v = "Happy" THEN 10
    ELSE IF v = "Surprise" THEN 5
    ELSE IF v \in {"Disgust", "Angry"} THEN -10
    ELSE IF v = "Sad" THEN -7
    ELSE IF v = "Fear" THEN -6
    ELSE IF v = "Neutral" THEN 1
    ELSE 0
ContractSum(t, v) == 6 * ContractTextScore(t) + 4 * ContractVideoScore(v)

\* C1: in every result of get_multimodal_sentiment, final_sentiment is
\* Positive when 0.6*t + 0.4*v >= 0.3, Negative when it is <= -0.3 and Neutral
\* otherwise, for the scores t, v of the returned text_sentiment and
\* video_emotion; (Positive, Happy) is Positive, (Negative, Neutral) is
\* Negative and (Neutral, Sad) is Neutral.
C1_FusionTable ==
    sentiment_result # NoResult =>
        LET t == sentiment_result.text_sentiment
            v == sentiment_result.video_emotion
            f == sentiment_result.final_sentiment
            sum == ContractSum(t, v)
        IN /\ t \in TextLabels
           /\ v \in VideoLabels
           /\ sum >= 30 => f = "Positive"
           /\ sum <= -30 => f = "Negative"
           /\ (sum > -30 /\ sum < 30) => f = "Neutral"
           /\ (t = "Positive" /\ v = "Happy") => f = "Positive"
           /\ (t = "Negative" /\ v = "Neutral") => f = "Negative"
           /\ (t = "Neutral" /\ v = "Sad") => f = "Neutral"

C1_Witness ==
    /\ sentiment_result # NoResult
    /\ sentiment_result.text_sentiment = "Neutral"
    /\ sentiment_result.video_emotion = "Sad"
    /\ sentiment_result.final_sentiment = "Neutral"

\* C2: for a non-empty text with positive-class probability p, the text
\* label is Positive if p > 0.6, Negative if p < 0.4 and Neutral if
\* 0.4 <= p <= 0.6.
C2_TextThresholds ==
    (sentiment_result # NoResult /\ user_text # <<>>) =>
        LET t == sentiment_result.text_sentiment
        IN /\ 10 * clf.p > 6 * PScale => t = "Positive"
           /\ 10 * clf.p < 4 * PScale => t = "Negative"
           /\ (4 * PScale <= 10 * clf.p /\ 10 * clf.p <= 6 * PScale) => t = "Neutral"

C2_Witness ==
    /\ sentiment_result # NoResult
    /\ user_text # <<>>
    /\ 10 * clf.p = 6 * PScale
    /\ sentiment_result.text_sentiment = "Neutral"

ModelRaised == (clf # NoResult /\ clf.raises) \/ (gen # NoResult /\ gen.raises)

\* C3 as stated: AnalysisPipeline.run never propagates a failure to its
\* caller, whichever step fails.
C3_RunNeverPropagates == wpc # "raised"

\* C3 as amended: failures of transcription and of the two sidecar writes are
\* caught inside run; an exception of the text classifier or of the language
\* model leaves run, is caught by AnalysisWorker.run, and the worker emits
\* finished exactly once, with the degraded result.
C3_FailuresDegrade ==
    /\ wpc = "raised" =>
          \/ Last(steps) = "fuse" /\ clf.raises
          \/ Last(steps) = "respond" /\ gen.raises
    /\ (audio # NoResult /\ (~audio.exists \/ audio.raises)) => user_text = Placeholder
    /\ wpc # "done" => finished_sig = <<>>
    /\ wpc = "done" =>
          /\ Len(finished_sig) = 1
          /\ finished_sig[1] = IF run_result = NoResult THEN DegradedResult
                               ELSE run_result
          /\ run_result = NoResult <=> ModelRaised

C3_Witness ==
    /\ wpc = "done"
    /\ gen # NoResult /\ gen.raises
    /\ audio.raises
    /\ finished_sig = <<DegradedResult>>

\* C4: the calls of a run are a prefix of transcribe, save transcript, fuse,
\* save sentiment, respond, return, in that order; a run that returns made all
\* six; the response generator receives user_text and the fused
\* final_sentiment of the fusion step.
C4_StepOrder ==
    /\ Len(steps) <= Len(RunSteps)
    /\ steps = SubSeq(RunSteps, 1, Len(steps))
    /\ run_result # NoResult => steps = RunSteps
    /\ responder_args # NoResult =>
          /\ sentiment_result # NoResult
          /\ responder_args = <<user_text, sentiment_result.final_sentiment>>
          /\ sentiment_result.final_sentiment =
                IF ContractSum(sentiment_result.text_sentiment,
                               sentiment_result.video_emotion) >= 30 THEN "Positive"
                ELSE IF ContractSum(sentiment_result.text_sentiment,
                                    sentiment_result.video_emotion) <= -30 THEN "Negative"
                ELSE "Neutral"
    /\ (\E f \in sidecars : f.name = "B_sentiment.txt") => Len(steps) >= 4
    /\ (\E f \in sidecars : f.name = "B.txt") => Len(steps) >= 2

C4_Witness ==
    /\ wpc = "returned"
    /\ steps = RunSteps
    /\ responder_args[2] = "Positive"
    /\ sentiment_result.text_sentiment = "Neutral"
    /\ sentiment_result.video_emotion = "Happy"

\* transcription yields empty text: missing file, transcription error, or a
\* transcript of whitespace only
EmptyTranscription ==
    /\ audio # NoResult
    /\ \/ ~audio.exists
       \/ audio.raises
       \/ \A i \in 1..Len(audio.text) : audio.text[i] = " "

\* C5 as stated: when transcription yields empty text the run performs every
\* downstream step and returns, without raising.
C5_EmptyNeverRaises == EmptyTranscription => wpc # "raised"

\* C5 as amended: when transcription yields empty text, user_text is the
\* placeholder in every later step (the transcript written, the text fused,
\* the text handed to the response generator, the tuple returned), and the
\* run makes all six calls and returns unless the text classifier or the
\* language model raises.
C5_PlaceholderSubstituted ==
    EmptyTranscription =>
        /\ user_text = Placeholder
        /\ \A f \in sidecars : f.name = "B.txt" => f.content = Placeholder
        /\ responder_args # NoResult => responder_args[1] = Placeholder
        /\ wpc = "raised" => ModelRaised
        /\ run_result # NoResult => (run_result[1] = Placeholder /\ steps = RunSteps)
        /\ (wpc = "done" /\ ~ModelRaised) =>
              (run_result # NoResult /\ finished_sig = <<run_result>>)

C5_Witness ==
    /\ EmptyTranscription
    /\ audio.exists /\ ~audio.raises /\ audio.text # <<>>
    /\ wpc = "done"
    /\ run_result # NoResult
    /\ run_result[1] = Placeholder
    /\ [name |-> "B.txt", content |-> Placeholder] \in sidecars

\* an error while opening, decoding or analysing the video asset
VideoFails(v) ==
    \/ ~v.exists
    \/ ~v.opens
    \/ \E i \in 1..Len(v.frames) : v.frames[i].ret = "raise"

\* C6 as stated: get_multimodal_sentiment never raises.
C6_FusionNeverRaises == wpc # "fuse" => (wpc # "raised" /\ sentiment_result # NoResult)

\* C6 as amended: get_multimodal_sentiment never raises because of the video
\* asset: every error while opening, decoding or analysing it becomes the
\* label Error or Unknown and the three-field result is returned; the only
\* exception that leaves the function is one of the text classifier on a
\* non-empty text.
C6_VideoErrorsBecomeLabels ==
    /\ wpc = "raised" => (clf.raises /\ user_text # <<>> /\ sentiment_result = NoResult)
    /\ (wpc # "fuse" /\ ~(clf.raises /\ user_text # <<>>)) => sentiment_result # NoResult
    /\ sentiment_result # NoResult =>
          /\ DOMAIN sentiment_result = ResultKeys
          /\ sentiment_result.final_sentiment \in TextLabels
          /\ VideoFails(video) => sentiment_result.video_emotion \in {"Error", "Unknown"}

C6_Witness ==
    /\ sentiment_result # NoResult
    /\ video.exists /\ video.opens
    /\ VideoFails(video)
    /\ sentiment_result.video_emotion = "Error"

\* C7: an asset that opens and in which no frame yields a detected face (zero
\* frames included) gives NoFace; an existing asset that fails to open gives
\* Error.
C7_NoFaceAndError ==
    video_out # NoResult =>
        /\ (/\ video.exists /\ video.opens
            /\ \A i \in 1..Len(video.frames) :
                  video.frames[i].ret = "ok" /\ video.frames[i].faces = <<>>)
              => video_out.emotion = "NoFace"
        /\ (video.exists /\ ~video.opens) => video_out.emotion = "Error"

C7_Witness ==
    /\ video_out # NoResult
    /\ video.exists /\ video.opens
    /\ Len(video.frames) >= 2
    /\ \A i \in 1..Len(video.frames) : video.frames[i].faces = <<>>
    /\ video_out.emotion = "NoFace"

\* the frames of v whose first detected face has key k as its arg-max
FramesWithDominant(v, k) ==
    {i \in 1..Len(v.frames) :
        /\ v.frames[i].faces # <<>>
        /\ LET vec == v.frames[i].faces[1]
               c == CHOOSE c \in 1..7 :
                       /\ \A j \in 1..7 : vec[j] <= vec[c]
                       /\ \A j \in 1..(c - 1) : vec[j] < vec[c]
           IN EmotionKeys[c] = k}
KeySet == {EmotionKeys[i] : i \in 1..7}

C9_AtMostOneRun == ~(cam_worker.state = "running" /\ file_worker.state = "running")

\* C10: a manual_save_recording call made while the audio buffer or the video
\* buffer is empty (recording started and stopped with no tick in between)
\* returns None and writes neither the .wav nor the .avi file.
C10_EmptyFlush ==
    (flush # NoResult /\ (flush.audio = <<>> \/ flush.video = <<>>)) =>
        /\ flush.ret = NoResult
        /\ flush.written = {}
        /\ \A f \in disk : f.content # <<>>

C10_Witness ==
    /\ flush # NoResult
    /\ sessions = 1
    /\ flush.audio = <<>> /\ flush.video = <<>>
    /\ flush.ret = NoResult
    /\ disk = {}
    /\ ~rec_is_recording
    /\ start_enabled

-----------------------------------------------------------------------------
(* The recorder: start, tick, stop / flush *)

\* q is what the ticks of session s captured, in capture order
IsSession(q, s) == \A k \in 1..Len(q) : q[k].s = s /\ q[k].i = k

\* C11: after stop the recorder is Idle, and the flush writes exactly the
\* chunks and frames the ticks between the matching start and that stop
\* appended, in capture order: the buffers handed off hold the ticks 1..n of
\* the session being stopped, every file written holds its buffer, and no file
\* of a recording holds anything captured in another session or while Idle.
C11_FlushIsSession ==
    /\ (recorder /\ ~cam_is_recording) => ~rec_is_recording
    /\ flush # NoResult =>
        /\ flush.session = sessions =>
            /\ ~rec_is_recording
            /\ Len(flush.audio) = ticks
            /\ Len(flush.video) = ticks
        /\ IsSession(flush.audio, flush.session)
        /\ IsSession(flush.video, flush.session)
        /\ \A k \in 1..Len(flush.writes) :
            flush.writes[k].content = IF flush.writes[k].name[2] = "wav"
                                      THEN flush.audio ELSE flush.video
    /\ \A f \in disk :
        f.name[1].prefix = "output" =>
            /\ f.content # <<>>
            /\ \E s \in 1..sessions : IsSession(f.content, s)

C11_Witness ==
    /\ sessions = 2
    /\ flush # NoResult
    /\ flush.session = 2
    /\ flush.ret # NoResult
    /\ Len(flush.audio) = 2
    /\ \E f \in disk : f.content[1].s = 1
    /\ \E f \in disk : f.content[1].s = 2
    /\ frame_out # NoResult /\ frame_out.frame /\ ~frame_out.recording

\* C12: a start_recording on an initialized recorder leaves both buffers empty
\* and the recorder recording, whatever the buffers held before.
C12_StartClears ==
    [][(~cam_is_recording /\ cam_is_recording') =>
           /\ audio_frames' = <<>>
           /\ video_frames' = <<>>
           /\ rec_is_recording']_vars

C12_Witness ==
    /\ sessions = 2
    /\ cam_is_recording
    /\ rec_is_recording
    /\ audio_frames = <<>>
    /\ video_frames = <<>>
    /\ ticks = 0
    /\ flush # NoResult
    /\ flush.session = 1
    /\ Len(flush.audio) = 2

\* C13: every successful get_current_frame while recording appends one audio
\* chunk and one copy of the raw frame, so the two buffers always have the same
\* length (the number of such ticks) and hold the same ticks; the status text
\* is on the frame returned for display and on no buffered frame.
C13_TickAppendsBoth ==
    /\ Len(audio_frames) = Len(video_frames)
    /\ Len(video_frames) = ticks
    /\ \A k \in 1..Len(video_frames) :
        /\ video_frames[k].overlay = "none"
        /\ audio_frames[k].s = video_frames[k].s
        /\ audio_frames[k].i = video_frames[k].i
    /\ (frame_out # NoResult /\ frame_out.frame) =>
        frame_out.overlay = IF frame_out.recording THEN "recording" ELSE "ready"

C13_Witness ==
    /\ rec_is_recording
    /\ ticks = 2
    /\ Len(video_frames) = 2
    /\ Len(audio_frames) = 2
    /\ frame_out # NoResult
    /\ frame_out.overlay = "recording"

\* C14: a tick whose hardware read fails (the camera gives no frame, or the
\* audio read fails) makes get_current_frame return None: it does not raise,
\* the loop is not aborted, and the buffers are left as they were.
C14_ReadFailureIsNoFrame ==
    /\ (frame_out # NoResult /\ frame_out.read # "ok") =>
        /\ ~frame_out.frame
        /\ ~frame_out.raised
    /\ ~crashed
    /\ Len(audio_frames) = ticks

-----------------------------------------------------------------------------
(* The run: persistence errors and the delivered result *)

\* what get_multimodal_sentiment gives on the same inputs when the per-frame
\* table can be written
HadWritesSucceeded ==
    GetMultimodalSentiment([video EXCEPT !.csv_ok = TRUE], user_text, clf).result

\* C15: a failed write of a sidecar artifact (B.txt, B_sentiment.txt,
\* B_details.csv) neither aborts the run nor changes what it returns: the run
\* raises only when the classifier or the language model does, and the
\* returned tuple is the one of the same run with every write succeeding.
C15_PersistenceErrorHarmless ==
    /\ wpc = "raised" =>
        \/ clf # NoResult /\ clf.raises
        \/ gen # NoResult /\ gen.raises
    /\ run_result # NoResult =>
        run_result =
            <<user_text,
              GenerateResponse(user_text, HadWritesSucceeded.final_sentiment,
                               gen).response,
              HadWritesSucceeded.text_sentiment,
              HadWritesSucceeded.video_emotion>>

\* C19: every result handed to AnalysisWorker.finished, on the success and
\* on the failure path, has text_sentiment in {Positive, Negative, Neutral}
\* and video_emotion among the ten video labels.
C19_DeliveredEnums ==
    \A k \in 1..Len(finished_sig) :
        /\ finished_sig[k][3] \in TextLabels
        /\ finished_sig[k][4] \in VideoLabels

-----------------------------------------------------------------------------
(* The responder *)

Tones == {"upbeat", "comforting", "neutral"}

\* C16: generate_response on an empty user_text returns the fixed fallback
\* reply, builds no prompt and does not invoke the language model; on every
\* non-empty user_text it builds the prompt and invokes the model exactly once.
C16_EmptyShortCircuits ==
    wpc \in {"generated", "generate_raised"} =>
        IF responder_args[1] = <<>>
        THEN /\ wpc = "generated"
             /\ ai_response = FallbackReply
             /\ prompt = NoResult
             /\ model_calls = 0
        ELSE /\ prompt # NoResult
             /\ model_calls = 1
             /\ ai_response # FallbackReply

C16_Witness ==
    /\ wpc = "generated"
    /\ responder_args[1] = <<>>
    /\ responder_args[2] = "Negative"
    /\ ai_response = FallbackReply
    /\ model_calls = 0

\* C17: the prompt _build_prompt builds holds the persona preamble and exactly
\* one tone instruction: the upbeat one for "Positive", the comforting one
\* for "Negative", the neutral one for every other label; the user message
\* is the user text.
C17_PromptTone ==
    prompt # NoResult =>
        /\ Len(prompt) = 2
        /\ prompt[1].role = "system"
        /\ Len(prompt[1].content) = 2
        /\ prompt[1].content[1] = "persona"
        /\ prompt[1].content[2] \in Tones
        /\ prompt[1].content[2] =
               IF responder_args[2] = "Positive" THEN "upbeat"
               ELSE IF responder_args[2] = "Negative" THEN "comforting"
               ELSE "neutral"
        /\ prompt[2] = [role |-> "user", content |-> responder_args[1]]

C17_Witness ==
    /\ prompt # NoResult
    /\ responder_args[2] = "Unknown"
    /\ prompt[1].content = <<"persona", "neutral">>
    /\ wpc = "generated"

-----------------------------------------------------------------------------
(* The sentiment sidecar *)

\* C20: for every triple of labels, the three Key: Value lines the pipeline
\* writes, read back line by line, give exactly the three labels written.
C20_SidecarRoundTrip ==
    (parsed # NoResult /\ \E f \in sidecars : f.name = "B_sentiment.txt") =>
        /\ parsed.text_sentiment = <<sentiment_result.text_sentiment>>
        /\ parsed.video_emotion = <<sentiment_result.video_emotion>>
        /\ parsed.final_sentiment = <<sentiment_result.final_sentiment>>

C20_Witness ==
    /\ parsed # NoResult
    /\ \E f \in sidecars : f.name = "B_sentiment.txt"
    /\ sentiment_result.text_sentiment = "Negative"
    /\ sentiment_result.video_emotion = "NoFace"
    /\ sentiment_result.final_sentiment = "Positive"
    /\ parsed = [text_sentiment |-> <<"Negative">>, video_emotion |-> <<"NoFace">>,
                 final_sentiment |-> <<"Positive">>]

-----------------------------------------------------------------------------
(* The worker threads *)

WorkerSignals == {"finished", "error"}

\* C18: completion signals are one-shot.  A run of AnalysisWorker has emitted
\* finished exactly once when it ends, whether pipeline.run returned or
\* raised, and nothing before; a run of HardwareSetupWorker and a run of
\* VideoPreprocessor has emitted exactly one signal, finished or error, when
\* it ends, and nothing before.
C18_OneShot ==
    /\ wpc = "done" => Len(finished_sig) = 1
    /\ wpc # "done" => finished_sig = <<>>
    /\ file_worker.state = "emitted" => wpc = "done"
    /\ hw \in {"idle", "running"} => hw_emitted = <<>>
    /\ hw \notin {"idle", "running"} =>
        /\ Len(hw_emitted) = 1
        /\ hw_emitted[1] \in WorkerSignals
    /\ (analyses = 0 \/ pre.state = "running") => pre_emitted = <<>>
    /\ (analyses > 0 /\ pre.state # "running") =>
        /\ Len(pre_emitted) = 1
        /\ pre_emitted[1] \in WorkerSignals

C18_Witness ==
    /\ wpc = "done"
    /\ finished_sig = <<DegradedResult>>
    /\ file_worker.state = "emitted"
    /\ hw_emitted = <<"error">>
    /\ pre_emitted = <<"finished">>

-----------------------------------------------------------------------------
(* Startup and the failure of a capability *)

\* C21: once the HardwareSetupWorker has emitted error, the start button is
\* never enabled and no recorder, timer, capture session or camera-side worker
\* exists; the process runs on, and the FileTab stays usable: its models are
\* loaded and its upload button is enabled except while an analysis it
\* started is under way.
C21_HardwareFailureIsLocal ==
    hw_emitted = <<"error">> =>
        /\ hw \in {"emitted_error", "error"}
        /\ ~start_enabled
        /\ ~recorder
        /\ ~timer_on
        /\ ~cam_is_recording
        /\ ~rec_is_recording
        /\ sessions = 0
        /\ cam_worker = NoWorker
        /\ ~crashed
        /\ file_models_loaded
        /\ \/ upload_enabled
           \/ pre.state # "none"
           \/ file_worker.state # "none"

C21_Witness ==
    /\ hw = "error"
    /\ hw_emitted = <<"error">>
    /\ ~start_enabled
    /\ analyses = 1
    /\ file_worker = NoWorker
    /\ pre = NoWorker
    /\ upload_enabled
    /\ analyze_enabled
    /\ \E f \in disk : f.name[1].prefix = "uploaded" /\ f.name[2] = "wav"

-----------------------------------------------------------------------------
(* The assets of a run *)

\* the file of the media directory a path names, if any
FileAt(path) == {f \in disk : f.name = path}

\* C22: the audio path and the video path a run of AnalysisWorker hands to
\* AnalysisPipeline.run are B.wav and B.avi of one basename B, the one the
\* worker was constructed with; on the CameraTab B is the basename of the
\* session just stopped and both files hold that session's flush, on the
\* FileTab B is the basename under which the preprocessing of the chosen
\* upload wrote both files.
C22_MatchedPair ==
    /\ cam_worker.state = "emitted" =>
        /\ cam_worker.paths.audio = <<cam_worker.basename, "wav">>
        /\ cam_worker.paths.video = <<cam_worker.basename, "avi">>
        /\ cam_worker.basename = current_basename
        /\ cam_worker.basename.prefix = "output"
        /\ flush.session = sessions
        /\ flush.ret = cam_worker.basename
        /\ FileAt(cam_worker.paths.audio) =
               {[name |-> cam_worker.paths.audio, content |-> flush.audio]}
        /\ FileAt(cam_worker.paths.video) =
               {[name |-> cam_worker.paths.video, content |-> flush.video]}
    /\ file_worker.state = "emitted" =>
        /\ file_worker.paths.audio = <<file_worker.basename, "wav">>
        /\ file_worker.paths.video = <<file_worker.basename, "avi">>
        /\ file_worker.basename.prefix = "uploaded"
        /\ FileAt(file_worker.paths.audio) =
               {[name |-> file_worker.paths.audio, content |-> <<file_video_path>>]}
        /\ FileAt(file_worker.paths.video) =
               {[name |-> file_worker.paths.video, content |-> <<file_video_path>>]}

C22_Witness ==
    /\ cam_worker.state = "emitted"
    /\ file_worker.state = "emitted"
    /\ sessions = 2
    /\ Len(flush.audio) = 2
    /\ cam_worker.paths.video[1].prefix = "output"
    /\ file_worker.paths.video[1].prefix = "uploaded"

-----------------------------------------------------------------------------
(* Lockout *)

\* the start button is disabled on an initialized CameraTab (stop_recording
\* disabled it); the FileTab's buttons are disabled after analyze_video
CamLocked == recorder /\ ~start_enabled
FileLocked == file_models_loaded /\ ~upload_enabled

\* C24: whenever stop_recording has disabled the start button it is enabled
\* again later, and whenever analyze_video has disabled the upload and analyze
\* buttons both are enabled again later, given that every started worker
\* runs to its end and every emitted signal reaches its slot.
C24_NoPermanentLockout ==
    /\ CamLocked ~> start_enabled
    /\ FileLocked ~> (upload_enabled /\ analyze_enabled)

-----------------------------------------------------------------------------
(* The models *)

\* C25: whenever a tab has constructed an AnalysisWorker, that tab's
\* models_loaded is true and the transcriber, analyzer and responder it handed
\* to the worker are the loaded objects, none of them None; and no
\* stop_recording has taken the "models still loading" branch of start_analysis.
C25_WorkerHasModels ==
    /\ cam_worker.state # "none" =>
        /\ cam_models_loaded
        /\ cam_worker.models = LoadedModels
    /\ file_worker.state # "none" =>
        /\ file_models_loaded
        /\ file_worker.models = LoadedModels
    /\ flush # NoResult => flush.branch # "models_loading"
    /\ recorder => cam_models_loaded /\ cam_models = LoadedModels
    /\ upload_enabled => file_models_loaded /\ file_models = LoadedModels

C25_Witness ==
    /\ cam_worker.state = "running"
    /\ cam_worker.models = LoadedModels
    /\ file_worker.state = "running"
    /\ file_worker.models = LoadedModels
    /\ flush.branch = "analysis"

\* nothing of the application has started: no models, no hardware worker, no
\* recorder, every button disabled, no session, no analysis, no worker, no file
NothingStarted ==
    /\ hw = "idle"
    /\ hw_emitted = <<>>
    /\ ~cam_models_loaded
    /\ ~file_models_loaded
    /\ ~recorder
    /\ ~timer_on
    /\ ~start_enabled
    /\ ~upload_enabled
    /\ ~analyze_enabled
    /\ sessions = 0
    /\ analyses = 0
    /\ cam_worker = NoWorker
    /\ pre = NoWorker
    /\ file_worker = NoWorker
    /\ disk = {}

\* C26: the hardware worker is started only once the loader's finished signal
\* has been handled, and until then nothing of the application has started;
\* a loader that failed has emitted no finished signal and stays failed, so
\* after a failed load the hardware is never initialized, neither the start
\* button nor the upload button is ever enabled, and no capture session and
\* no pipeline run ever starts.
C26_StartupOrder ==
    /\ NothingStarted
    /\ [][/\ loader = "failed" => loader' = "failed"
          /\ loader' # "done" => NothingStarted'
          /\ hw' # "idle" => loader' = "done"]_vars

C26_Witness ==
    /\ loader = "failed"
    /\ NothingStarted

-----------------------------------------------------------------------------
(* The CameraTab and its recorder *)

\* C27: with an initialized recorder, CameraTab.is_recording equals
\* recorder.is_recording, and is_recording and is_processing are never both
\* true; while is_processing is true (from stop_recording until
\* on_analysis_complete) the start button is disabled, no session has started
\* since the one just stopped, and both buffers are as that stop's flush
\* found them.
C27_CameraTabState ==
    /\ recorder => cam_is_recording = rec_is_recording
    /\ ~recorder => ~cam_is_recording /\ ~rec_is_recording
    /\ ~(cam_is_recording /\ cam_is_processing)
    /\ cam_is_processing =>
        /\ ~start_enabled
        /\ cam_worker.state # "none"
        /\ flush # NoResult
        /\ flush.session = sessions
        /\ flush.branch = "analysis"
        /\ audio_frames = flush.audio
        /\ video_frames = flush.video
    /\ (recorder /\ ~cam_is_processing) => start_enabled /\ cam_worker = NoWorker

C27_Witness ==
    /\ cam_is_processing
    /\ ~cam_is_recording
    /\ ~rec_is_recording
    /\ sessions = 2
    /\ Len(audio_frames) = 2
    /\ cam_worker.state = "emitted"
    /\ frame_out # NoResult
    /\ frame_out.read = "ok"
    /\ ~frame_out.recording

-----------------------------------------------------------------------------
(* The fusion: what the text label decides *)

\* C28: in every result of get_multimodal_sentiment, a Positive text is never
\* fused to Negative and a Negative text never to Positive, whatever the video
\* label; and with the video label NoFace, Unknown or Error the fused label
\* is the text label.
C28_TextBoundsFusion ==
    sentiment_result # NoResult =>
        LET t == sentiment_result.text_sentiment
            v == sentiment_result.video_emotion
            f == sentiment_result.final_sentiment
        IN /\ t = "Positive" => f # "Negative"
           /\ t = "Negative" => f # "Positive"
           /\ v \in {"NoFace", "Unknown", "Error"} => f = t

C28_Witness ==
    /\ sentiment_result # NoResult
    /\ sentiment_result.text_sentiment = "Positive"
    /\ sentiment_result.video_emotion = "Angry"
    /\ sentiment_result.final_sentiment = "Neutral"

-----------------------------------------------------------------------------
(* The run: the text is never empty *)

\* the text of a run is never empty once it is transcribed, so the classifier
\* is asked (the text label is the one of its probability) and
\* generate_response builds a prompt and invokes the model, never the fallback
TextNeverEmpty ==
    /\ wpc \notin {"idle", "transcribe"} => user_text # <<>>
    /\ sentiment_result # NoResult =>
        /\ ~clf.raises
        /\ sentiment_result.text_sentiment = TextLabel(clf.p)
    /\ responder_args # NoResult =>
        /\ responder_args[1] # <<>>
        /\ responder_args[1] \in {Strip(audio.text), Placeholder}
        /\ ai_response # FallbackReply
        /\ prompt # NoResult
        /\ model_calls = 1

\* C29 as stated: the text handed to the classifier and to the response
\* generator is never empty, the two empty-text shortcuts are never taken,
\* and every run has invoked the language model when it ends.
C29_ModelAlwaysInvoked ==
    /\ TextNeverEmpty
    /\ wpc = "done" => model_calls = 1

\* C29, amended: the text is never empty and the shortcuts are never taken;
\* every run that reaches generate_response invokes the language model
\* exactly once, and a run that the classifier's exception ends before that
\* invokes none.
C29_ModelInvokedWhenReached ==
    /\ TextNeverEmpty
    /\ model_calls = (IF responder_args # NoResult THEN 1 ELSE 0)
    /\ run_result # NoResult => model_calls = 1
    /\ (wpc = "done" /\ responder_args = NoResult) => (clf # NoResult /\ clf.raises)

C29_Witness ==
    /\ wpc = "done"
    /\ responder_args # NoResult
    /\ audio.exists /\ ~audio.raises /\ audio.text = <<" ", " ">>
    /\ user_text = Placeholder
    /\ responder_args[1] = Placeholder
    /\ model_calls = 1
    /\ run_result # NoResult
    /\ run_result[2].kind = "generated"

-----------------------------------------------------------------------------
(* The fusion on a missing video *)

\* C30: on a video path that does not exist, analyze_video_emotion returns
\* Unknown without calling cv2.VideoCapture, reading a frame or writing the
\* details table; the fusion scores that video 0, so the fused label is the
\* one of the text score alone, and the run goes on to its next step.
C30_MissingVideoIsUnknown ==
    (wpc \in {"save_sentiment", "raised"} /\ ~video.exists) =>
        IF wpc = "raised"
        THEN clf.raises /\ video_out = NoResult
        ELSE /\ video_out.emotion = "Unknown"
             /\ ~video_out.opened
             /\ video_out.decoded = 0
             /\ ~video_out.csv
             /\ \A f \in sidecars : f.name # "B_details.csv"
             /\ sentiment_result.video_emotion = "Unknown"
             /\ sentiment_result.final_sentiment =
                    (IF 6 * TextScore(sentiment_result.text_sentiment) >= 30
                     THEN "Positive"
                     ELSE IF 6 * TextScore(sentiment_result.text_sentiment) <= -30
                     THEN "Negative"
                     ELSE "Neutral")
             /\ sentiment_result.final_sentiment = sentiment_result.text_sentiment

C30_Witness ==
    /\ wpc = "save_sentiment"
    /\ ~video.exists
    /\ video_out.emotion = "Unknown"
    /\ ~video_out.opened
    /\ sentiment_result.text_sentiment = "Negative"
    /\ sentiment_result.final_sentiment = "Negative"

====
